---- MODULE Spec2Model ----
(***************************************************************************)
(* Verification model of the geometry core of programmatic-graphics:      *)
(* triangle_utils.py, quadrilateral_utils.py and circle_utils.py.         *)
(*                                                                         *)
(* The Python code computes with floats.  The model computes with exact   *)
(* real numbers of the form p + q*sqrt(d) (p, q rational, d a squarefree  *)
(* natural), which is closed under every operation the modelled functions *)
(* perform on the inputs the model draws.  Angles given in degrees are    *)
(* drawn from a table of angles whose sine and cosine are rational.       *)
(***************************************************************************)
EXTENDS Integers, Sequences, FiniteSets, TLC

VARIABLES args, pc, vertices, info, turns,
          ELECTRON_CONFIG, ELEMENT_DATA, PRESET_MOLECULES, calls,
          session_state

\* the module-level tables of the chemistry modules and a record of the calls
\* made in a chemistry session
chem == <<ELECTRON_CONFIG, ELEMENT_DATA, PRESET_MOLECULES, calls>>

vars == <<args, pc, vertices, info, turns, chem, session_state>>

(***************************************************************************)
(* Bounds of the model.                                                    *)
(***************************************************************************)
\* side lengths of SSS triangles are drawn from -1..MaxSide
MaxSide == 5
\* coordinates of triangles given by coordinates are drawn from 0..MaxCoord
MaxCoord == 2
\* side lengths and heights of quadrilateral presets are drawn from 1..MaxLen
MaxLen == 3
\* diagonals of kites are drawn from 1..MaxDiag
MaxDiag == 6
\* a built square is turned by 90 degrees at most MaxTurns times
MaxTurns == 4
\* circle radii are drawn from 1..MaxRadius
MaxRadius == 2
\* circle angles are the multiples of 45 degrees from -45*MaxAngleSteps
\* to 45*MaxAngleSteps
MaxAngleSteps == 12

\* the most bonds of an atom of a molecule
MaxBonds == 3

\* the longest SMILES string
MaxSmilesLen == 2

\* the largest charge of an ion, as on the slider of the page
MaxCharge == 3

\* the most calls of chemistry functions in one session
MaxCalls == 2

\* the values of the keys of the session state are drawn from 0..MaxValue
MaxValue == 5

(***************************************************************************)
(* Integers.                                                               *)
(***************************************************************************)
Abs(x) == IF x < 0 THEN -x ELSE x

Sgn(x) == IF x < 0 THEN -1 ELSE IF x > 0 THEN 1 ELSE 0

RECURSIVE GCD(_, _)
GCD(a, b) == IF b = 0 THEN a ELSE GCD(b, a % b)

\* floor of the square root of n >= 0, by bisection on lo..hi
RECURSIVE SqrtIter(_, _, _)
SqrtIter(n, lo, hi) ==
    IF lo >= hi THEN lo
    ELSE LET mid == (lo + hi + 1) \div 2
         IN  IF mid * mid <= n THEN SqrtIter(n, mid, hi)
             ELSE SqrtIter(n, lo, mid - 1)

ISqrt(n) == SqrtIter(n, 0, IF n < 46340 THEN n ELSE 46340)

\* the largest s with s*s dividing n (n >= 1), searched downward from k
RECURSIVE SquarePart(_, _)
SquarePart(n, k) ==
    IF k <= 1 THEN 1
    ELSE IF n % (k * k) = 0 THEN k
    ELSE SquarePart(n, k - 1)

(***************************************************************************)
(* Rationals: <<n, d>> with d > 0 and gcd(n, d) = 1.                       *)
(***************************************************************************)
Rat(n, d) ==
    LET s == IF d < 0 THEN -1 ELSE 1
        g == GCD(Abs(n), Abs(d))
    IN  <<(s * n) \div g, (s * d) \div g>>

RZero == <<0, 1>>
\* sum over the least common denominator
RAdd(x, y) ==
    LET g == GCD(x[2], y[2])
    IN  Rat(x[1] * (y[2] \div g) + y[1] * (x[2] \div g), (x[2] \div g) * y[2])
RNeg(x) == <<-x[1], x[2]>>
RSub(x, y) == RAdd(x, RNeg(y))
\* product, cancelling the common factors across the fractions first
RMul(x, y) ==
    IF x[1] = 0 \/ y[1] = 0 THEN <<0, 1>>
    ELSE LET g == GCD(Abs(x[1]), y[2])
             h == GCD(Abs(y[1]), x[2])
         IN  <<(x[1] \div g) * (y[1] \div h), (x[2] \div h) * (y[2] \div g)>>
RInv(x) == Rat(x[2], x[1])
RSgn(x) == Sgn(x[1])

(***************************************************************************)
(* Exact reals p + q*sqrt(d).  A rational has q = 0 and d = 1.  NaN is the *)
(* result of a division by zero or of the root of a negative number, and  *)
(* of any operation on NaN; Unsupported is a real number outside the      *)
(* representation.                                                         *)
(***************************************************************************)
NaN == [p |-> RZero, q |-> RZero, d |-> 0]
Unsupported == [p |-> RZero, q |-> RZero, d |-> -1]

IsNum(x) == x.d >= 1

Bad(x, y) == IF x.d = 0 \/ y.d = 0 THEN NaN ELSE Unsupported

Mk(p, q, d) == IF q = RZero THEN [p |-> p, q |-> RZero, d |-> 1]
               ELSE [p |-> p, q |-> q, d |-> d]

Q(n, m) == Mk(Rat(n, m), RZero, 1)
I(n) == Q(n, 1)
Zero == I(0)
One == I(1)
Two == I(2)

IsRational(x) == IsNum(x) /\ x.q = RZero

\* the radicand shared by x and y, or 0 when they have different radicands
Radicand(x, y) ==
    IF x.q = RZero THEN y.d
    ELSE IF y.q = RZero \/ x.d = y.d THEN x.d
    ELSE 0

\* q*sqrt(n) for a natural n >= 1, with the radicand made squarefree
Surd(q, n) ==
    LET s == SquarePart(n, ISqrt(n))
    IN  IF s * s = n THEN Mk(RMul(q, <<s, 1>>), RZero, 1)
        ELSE Mk(RZero, RMul(q, <<s, 1>>), n \div (s * s))

Neg(x) == IF ~IsNum(x) THEN x ELSE Mk(RNeg(x.p), RNeg(x.q), x.d)

Add(x, y) ==
    IF ~(IsNum(x) /\ IsNum(y)) THEN Bad(x, y)
    ELSE IF Radicand(x, y) = 0 THEN Unsupported
    ELSE Mk(RAdd(x.p, y.p), RAdd(x.q, y.q), Radicand(x, y))

Sub(x, y) == Add(x, Neg(y))

Mul(x, y) ==
    IF ~(IsNum(x) /\ IsNum(y)) THEN Bad(x, y)
    ELSE IF Radicand(x, y) # 0
    THEN LET d == Radicand(x, y)
         IN  Mk(RAdd(RMul(x.p, y.p), RMul(RMul(x.q, y.q), <<d, 1>>)),
                RAdd(RMul(x.p, y.q), RMul(x.q, y.p)), d)
    ELSE IF x.p = RZero /\ y.p = RZero
    THEN Surd(RMul(x.q, y.q), x.d * y.d)
    ELSE Unsupported

\* 1/(p + q*sqrt(d)) = (p - q*sqrt(d)) / (p*p - q*q*d)
Inv(x) ==
    IF ~IsNum(x) THEN x
    ELSE LET n == RSub(RMul(x.p, x.p), RMul(RMul(x.q, x.q), <<x.d, 1>>))
         IN  IF n = RZero THEN NaN
             ELSE Mk(RMul(x.p, RInv(n)), RNeg(RMul(x.q, RInv(n))), x.d)

Div(x, y) == Mul(x, Inv(y))

\* the sign of p + q*sqrt(d); 2 when x is not a number
Sign(x) ==
    IF ~IsNum(x) THEN 2
    ELSE IF x.q = RZero THEN RSgn(x.p)
    ELSE IF x.p = RZero THEN RSgn(x.q)
    ELSE IF RSgn(x.p) = RSgn(x.q) THEN RSgn(x.p)
    ELSE IF RSgn(RSub(RMul(x.p, x.p), RMul(RMul(x.q, x.q), <<x.d, 1>>))) > 0
         THEN RSgn(x.p)
    ELSE RSgn(x.q)

\* comparisons; as with floats, every comparison with NaN is false
Gt(x, y) == Sign(Sub(x, y)) = 1
Lt(x, y) == Sign(Sub(x, y)) = -1
Ge(x, y) == Sign(Sub(x, y)) \in {0, 1}
Le(x, y) == Sign(Sub(x, y)) \in {0, -1}

\* the square root of a rational n/m > 0 in lowest terms, with n = s*s*f
\* and m = t*t*g (f, g squarefree), is (s/(t*g)) * sqrt(f*g)
Sqrt(x) ==
    IF ~IsNum(x) THEN x
    ELSE IF ~IsRational(x) THEN Unsupported
    ELSE IF RSgn(x.p) < 0 THEN NaN
    ELSE IF x.p = RZero THEN Zero
    ELSE LET n == x.p[1]
             m == x.p[2]
             s == SquarePart(n, ISqrt(n))
             t == SquarePart(m, ISqrt(m))
             f == n \div (s * s)
             g == m \div (t * t)
         IN  Mk(IF f * g = 1 THEN Rat(s, t) ELSE RZero,
                IF f * g = 1 THEN RZero ELSE Rat(s, t * g), f * g)

Clip(x, lo, hi) == IF Lt(x, lo) THEN lo ELSE IF Gt(x, hi) THEN hi ELSE x

(***************************************************************************)
(* Angles.  An angle is known by its cosine and sine.  np.radians and     *)
(* np.degrees change the unit only and have no operator of their own.  An angle    *)
(* given in degrees by the caller carries the number of degrees as "deg"; *)
(* the table holds the angles the model draws.                             *)
(***************************************************************************)
Deg(name, c, s) == [deg |-> name, cos |-> c, sin |-> s]

Deg0 == Deg("0", One, Zero)
Deg90 == Deg("90", Zero, One)
\* atan(4/3) = 53.13..., 180 - atan(4/3) = 126.86..., -atan(3/4) = -36.86...
DegAtan43 == Deg("atan(4/3)", Q(3, 5), Q(4, 5))
DegObtuse == Deg("180-atan(4/3)", Q(-3, 5), Q(4, 5))
DegNegAtan34 == Deg("-atan(3/4)", Q(4, 5), Q(-3, 5))

np_cos(angle) == angle.cos
np_sin(angle) == angle.sin

\* np.arccos: the angle in [0, 180] with the given cosine; its sine is >= 0
np_arccos(x) == [deg |-> "arccos", cos |-> x, sin |-> Sqrt(Sub(One, Mul(x, x)))]

(***************************************************************************)
(* Vectors and points: pairs of reals.                                     *)
(***************************************************************************)
Vec(x, y) == <<x, y>>
VAdd(u, v) == <<Add(u[1], v[1]), Add(u[2], v[2])>>
VSub(u, v) == <<Sub(u[1], v[1]), Sub(u[2], v[2])>>
VNeg(u) == <<Neg(u[1]), Neg(u[2])>>
VScale(k, u) == <<Mul(k, u[1]), Mul(k, u[2])>>
VDiv(u, k) == <<Div(u[1], k), Div(u[2], k)>>
Dot(u, v) == Add(Mul(u[1], v[1]), Mul(u[2], v[2]))
Norm(u) == Sqrt(Dot(u, u))
IsPoint(u) == IsNum(u[1]) /\ IsNum(u[2])

\* rotation_matrix @ v for [[cos, -sin], [sin, cos]]
MatVec(theta, v) ==
    <<Sub(Mul(np_cos(theta), v[1]), Mul(np_sin(theta), v[2])),
      Add(Mul(np_sin(theta), v[1]), Mul(np_cos(theta), v[2]))>>

\* np.mean(points, axis=0)
RECURSIVE VSum(_)
VSum(points) == IF points = <<>> THEN <<Zero, Zero>>
                ELSE VAdd(Head(points), VSum(Tail(points)))

np_mean(points) == VDiv(VSum(points), I(Len(points)))

(***************************************************************************)
(* The module-level tables of electron_shell_utils.py and                 *)
(* dotcross_utils.py.  They are state: a function could write to them.    *)
(***************************************************************************)
\* electron_shell_utils.ELECTRON_CONFIG as the module is loaded
InitialElectronConfig ==
    "H" :> [shells |-> <<1>>, name |-> "Hydrogen", symbol |-> "H", protons |-> 1]
    @@ "He" :> [shells |-> <<2>>, name |-> "Helium", symbol |-> "He", protons |-> 2]
    @@ "Li" :> [shells |-> <<2, 1>>, name |-> "Lithium", symbol |-> "Li", protons |-> 3]
    @@ "Be" :> [shells |-> <<2, 2>>, name |-> "Beryllium", symbol |-> "Be", protons |-> 4]
    @@ "B" :> [shells |-> <<2, 3>>, name |-> "Boron", symbol |-> "B", protons |-> 5]
    @@ "C" :> [shells |-> <<2, 4>>, name |-> "Carbon", symbol |-> "C", protons |-> 6]
    @@ "N" :> [shells |-> <<2, 5>>, name |-> "Nitrogen", symbol |-> "N", protons |-> 7]
    @@ "O" :> [shells |-> <<2, 6>>, name |-> "Oxygen", symbol |-> "O", protons |-> 8]
    @@ "F" :> [shells |-> <<2, 7>>, name |-> "Fluorine", symbol |-> "F", protons |-> 9]
    @@ "Ne" :> [shells |-> <<2, 8>>, name |-> "Neon", symbol |-> "Ne", protons |-> 10]
    @@ "Na" :> [shells |-> <<2, 8, 1>>, name |-> "Sodium", symbol |-> "Na", protons |-> 11]
    @@ "Mg" :> [shells |-> <<2, 8, 2>>, name |-> "Magnesium", symbol |-> "Mg", protons |-> 12]
    @@ "Al" :> [shells |-> <<2, 8, 3>>, name |-> "Aluminium", symbol |-> "Al", protons |-> 13]
    @@ "Si" :> [shells |-> <<2, 8, 4>>, name |-> "Silicon", symbol |-> "Si", protons |-> 14]
    @@ "P" :> [shells |-> <<2, 8, 5>>, name |-> "Phosphorus", symbol |-> "P", protons |-> 15]
    @@ "S" :> [shells |-> <<2, 8, 6>>, name |-> "Sulphur", symbol |-> "S", protons |-> 16]
    @@ "Cl" :> [shells |-> <<2, 8, 7>>, name |-> "Chlorine", symbol |-> "Cl", protons |-> 17]
    @@ "Ar" :> [shells |-> <<2, 8, 8>>, name |-> "Argon", symbol |-> "Ar", protons |-> 18]
    @@ "K" :> [shells |-> <<2, 8, 8, 1>>, name |-> "Potassium", symbol |-> "K", protons |-> 19]
    @@ "Ca" :> [shells |-> <<2, 8, 8, 2>>, name |-> "Calcium", symbol |-> "Ca", protons |-> 20]

\* dotcross_utils.ELEMENT_DATA as the module is loaded
InitialElementData ==
    "H" :> [outer_electrons |-> 1, name |-> "Hydrogen"]
    @@ "He" :> [outer_electrons |-> 2, name |-> "Helium"]
    @@ "Li" :> [outer_electrons |-> 1, name |-> "Lithium"]
    @@ "Be" :> [outer_electrons |-> 2, name |-> "Beryllium"]
    @@ "B" :> [outer_electrons |-> 3, name |-> "Boron"]
    @@ "C" :> [outer_electrons |-> 4, name |-> "Carbon"]
    @@ "N" :> [outer_electrons |-> 5, name |-> "Nitrogen"]
    @@ "O" :> [outer_electrons |-> 6, name |-> "Oxygen"]
    @@ "F" :> [outer_electrons |-> 7, name |-> "Fluorine"]
    @@ "Ne" :> [outer_electrons |-> 8, name |-> "Neon"]
    @@ "Na" :> [outer_electrons |-> 1, name |-> "Sodium"]
    @@ "Mg" :> [outer_electrons |-> 2, name |-> "Magnesium"]
    @@ "Al" :> [outer_electrons |-> 3, name |-> "Aluminium"]
    @@ "Si" :> [outer_electrons |-> 4, name |-> "Silicon"]
    @@ "P" :> [outer_electrons |-> 5, name |-> "Phosphorus"]
    @@ "S" :> [outer_electrons |-> 6, name |-> "Sulphur"]
    @@ "Cl" :> [outer_electrons |-> 7, name |-> "Chlorine"]
    @@ "Ar" :> [outer_electrons |-> 8, name |-> "Argon"]
    @@ "K" :> [outer_electrons |-> 1, name |-> "Potassium"]
    @@ "Ca" :> [outer_electrons |-> 2, name |-> "Calcium"]
    @@ "Br" :> [outer_electrons |-> 7, name |-> "Bromine"]
    @@ "I" :> [outer_electrons |-> 7, name |-> "Iodine"]

\* dotcross_utils.PRESET_MOLECULES as the module is loaded; the subscript
\* digits of the names are written as plain digits.  Atom indices count
\* from 0 as in the source; the list of atoms is a sequence, so atom i is
\* atoms[i + 1].
InitialPresetMolecules ==
    "H2" :>
         [type |-> "covalent",
          description |-> "Hydrogen molecule - single covalent bond",
          atoms |-> <<[element |-> "H", position |-> Vec(Q(-1, 2), I(0))],
                      [element |-> "H", position |-> Vec(Q(1, 2), I(0))]>>,
          bonds |-> <<<<0, 1, 1>>>>,
          lone_pairs |-> <<>>]
    @@ "Cl2" :>
         [type |-> "covalent",
          description |-> "Chlorine molecule - single covalent bond, 6 lone pairs total",
          atoms |-> <<[element |-> "Cl", position |-> Vec(Q(-1, 2), I(0))],
                      [element |-> "Cl", position |-> Vec(Q(1, 2), I(0))]>>,
          bonds |-> <<<<0, 1, 1>>>>,
          lone_pairs |-> 0 :> <<90, 180, 270>> @@ 1 :> <<90, 0, 270>>]
    @@ "O2" :>
         [type |-> "covalent",
          description |-> "Oxygen molecule - double covalent bond",
          atoms |-> <<[element |-> "O", position |-> Vec(Q(-1, 2), I(0))],
                      [element |-> "O", position |-> Vec(Q(1, 2), I(0))]>>,
          bonds |-> <<<<0, 1, 2>>>>,
          lone_pairs |-> 0 :> <<90, 270>> @@ 1 :> <<90, 270>>]
    @@ "N2" :>
         [type |-> "covalent",
          description |-> "Nitrogen molecule - triple covalent bond",
          atoms |-> <<[element |-> "N", position |-> Vec(Q(-1, 2), I(0))],
                      [element |-> "N", position |-> Vec(Q(1, 2), I(0))]>>,
          bonds |-> <<<<0, 1, 3>>>>,
          lone_pairs |-> 0 :> <<180>> @@ 1 :> <<0>>]
    @@ "HCl" :>
         [type |-> "covalent",
          description |-> "Hydrogen chloride - single covalent bond",
          atoms |-> <<[element |-> "H", position |-> Vec(Q(-1, 2), I(0))],
                      [element |-> "Cl", position |-> Vec(Q(1, 2), I(0))]>>,
          bonds |-> <<<<0, 1, 1>>>>,
          lone_pairs |-> 1 :> <<90, 0, 270>>]
    @@ "HF" :>
         [type |-> "covalent",
          description |-> "Hydrogen fluoride - single covalent bond",
          atoms |-> <<[element |-> "H", position |-> Vec(Q(-1, 2), I(0))],
                      [element |-> "F", position |-> Vec(Q(1, 2), I(0))]>>,
          bonds |-> <<<<0, 1, 1>>>>,
          lone_pairs |-> 1 :> <<90, 0, 270>>]
    @@ "H2O" :>
         [type |-> "covalent",
          description |-> "Water - bent molecule with 2 lone pairs on oxygen",
          atoms |-> <<[element |-> "O", position |-> Vec(I(0), I(0))],
                      [element |-> "H", position |-> Vec(Q(-3, 4), Q(-3, 5))],
                      [element |-> "H", position |-> Vec(Q(3, 4), Q(-3, 5))]>>,
          bonds |-> <<<<0, 1, 1>>, <<0, 2, 1>>>>,
          lone_pairs |-> 0 :> <<110, 70>>]
    @@ "H2S" :>
         [type |-> "covalent",
          description |-> "Hydrogen sulphide - similar to water",
          atoms |-> <<[element |-> "S", position |-> Vec(I(0), I(0))],
                      [element |-> "H", position |-> Vec(Q(-3, 4), Q(-3, 5))],
                      [element |-> "H", position |-> Vec(Q(3, 4), Q(-3, 5))]>>,
          bonds |-> <<<<0, 1, 1>>, <<0, 2, 1>>>>,
          lone_pairs |-> 0 :> <<110, 70>>]
    @@ "NH3" :>
         [type |-> "covalent",
          description |-> "Ammonia - pyramidal with 1 lone pair on nitrogen",
          atoms |-> <<[element |-> "N", position |-> Vec(I(0), I(0))],
                      [element |-> "H", position |-> Vec(Q(-4, 5), Q(-11, 20))],
                      [element |-> "H", position |-> Vec(I(0), Q(-9, 10))],
                      [element |-> "H", position |-> Vec(Q(4, 5), Q(-11, 20))]>>,
          bonds |-> <<<<0, 1, 1>>, <<0, 2, 1>>, <<0, 3, 1>>>>,
          lone_pairs |-> 0 :> <<90>>]
    @@ "CH4" :>
         [type |-> "covalent",
          description |-> "Methane - tetrahedral arrangement",
          atoms |-> <<[element |-> "C", position |-> Vec(I(0), I(0))],
                      [element |-> "H", position |-> Vec(I(0), Q(9, 10))],
                      [element |-> "H", position |-> Vec(Q(-4, 5), Q(-11, 20))],
                      [element |-> "H", position |-> Vec(Q(4, 5), Q(-11, 20))],
                      [element |-> "H", position |-> Vec(I(0), Q(-9, 10))]>>,
          bonds |-> <<<<0, 1, 1>>, <<0, 2, 1>>, <<0, 3, 1>>, <<0, 4, 1>>>>,
          lone_pairs |-> <<>>]
    @@ "CO2" :>
         [type |-> "covalent",
          description |-> "Carbon dioxide - linear with double bonds",
          atoms |-> <<[element |-> "C", position |-> Vec(I(0), I(0))],
                      [element |-> "O", position |-> Vec(Q(-9, 10), I(0))],
                      [element |-> "O", position |-> Vec(Q(9, 10), I(0))]>>,
          bonds |-> <<<<0, 1, 2>>, <<0, 2, 2>>>>,
          lone_pairs |-> 1 :> <<90, 270>> @@ 2 :> <<90, 270>>]
    @@ "NaCl" :>
         [type |-> "ionic",
          description |-> "Sodium chloride - Na+ and Cl- ions",
          atoms |-> <<[element |-> "Na", position |-> Vec(Q(-3, 2), I(0)), charge |-> "+", show_electrons |-> 0],
                      [element |-> "Cl", position |-> Vec(Q(3, 2), I(0)), charge |-> "-", show_electrons |-> 8, transferred |-> 1]>>]
    @@ "MgO" :>
         [type |-> "ionic",
          description |-> "Magnesium oxide - Mg2+ and O2- ions",
          atoms |-> <<[element |-> "Mg", position |-> Vec(Q(-3, 2), I(0)), charge |-> "2+", show_electrons |-> 0],
                      [element |-> "O", position |-> Vec(Q(3, 2), I(0)), charge |-> "2-", show_electrons |-> 8, transferred |-> 2]>>]
    @@ "MgCl2" :>
         [type |-> "ionic",
          description |-> "Magnesium chloride - Mg2+ and 2xCl-",
          atoms |-> <<[element |-> "Mg", position |-> Vec(I(0), I(0)), charge |-> "2+", show_electrons |-> 0],
                      [element |-> "Cl", position |-> Vec(Q(-9, 5), I(0)), charge |-> "-", show_electrons |-> 8, transferred |-> 1],
                      [element |-> "Cl", position |-> Vec(Q(9, 5), I(0)), charge |-> "-", show_electrons |-> 8, transferred |-> 1]>>]
    @@ "CaCl2" :>
         [type |-> "ionic",
          description |-> "Calcium chloride - Ca2+ and 2xCl-",
          atoms |-> <<[element |-> "Ca", position |-> Vec(I(0), I(0)), charge |-> "2+", show_electrons |-> 0],
                      [element |-> "Cl", position |-> Vec(Q(-9, 5), I(0)), charge |-> "-", show_electrons |-> 8, transferred |-> 1],
                      [element |-> "Cl", position |-> Vec(Q(9, 5), I(0)), charge |-> "-", show_electrons |-> 8, transferred |-> 1]>>]
    @@ "Na2O" :>
         [type |-> "ionic",
          description |-> "Sodium oxide - 2xNa+ and O2-",
          atoms |-> <<[element |-> "Na", position |-> Vec(Q(-9, 5), I(0)), charge |-> "+", show_electrons |-> 0],
                      [element |-> "O", position |-> Vec(I(0), I(0)), charge |-> "2-", show_electrons |-> 8, transferred |-> 2],
                      [element |-> "Na", position |-> Vec(Q(9, 5), I(0)), charge |-> "+", show_electrons |-> 0]>>]
    @@ "KBr" :>
         [type |-> "ionic",
          description |-> "Potassium bromide - K+ and Br-",
          atoms |-> <<[element |-> "K", position |-> Vec(Q(-3, 2), I(0)), charge |-> "+", show_electrons |-> 0],
                      [element |-> "Br", position |-> Vec(Q(3, 2), I(0)), charge |-> "-", show_electrons |-> 8, transferred |-> 1]>>]
    @@ "LiF" :>
         [type |-> "ionic",
          description |-> "Lithium fluoride - Li+ and F-",
          atoms |-> <<[element |-> "Li", position |-> Vec(Q(-3, 2), I(0)), charge |-> "+", show_electrons |-> 0],
                      [element |-> "F", position |-> Vec(Q(3, 2), I(0)), charge |-> "-", show_electrons |-> 8, transferred |-> 1]>>]

\* the maths pages do not import the chemistry modules; a new session holds
\* no key
ModulesNotLoaded ==
    /\ ELECTRON_CONFIG = <<>>
    /\ ELEMENT_DATA = <<>>
    /\ PRESET_MOLECULES = <<>>
    /\ calls = [made |-> 0, ion_drawn |-> ""]
    /\ session_state = <<>>

\* the state of the chemistry modules after import
ModulesLoaded ==
    /\ ELECTRON_CONFIG = InitialElectronConfig
    /\ ELEMENT_DATA = InitialElementData
    /\ PRESET_MOLECULES = InitialPresetMolecules
    /\ calls = [made |-> 0, ion_drawn |-> ""]
    /\ session_state = <<>>

(***************************************************************************)
(* triangle_utils.py                                                       *)
(***************************************************************************)
\* Python's None is the empty tuple; a result not yet computed is Pending
None == <<>>
Pending == <<"pending">>

\* mutant: the third inequality is not tested
TriangleInequality_two_tests(a, b, c) ==
    Gt(Add(a, b), c) /\ Gt(Add(b, c), a)

\* mutant: the degenerate triangle a + b = c is accepted
TriangleInequality_nonstrict(a, b, c) ==
    Ge(Add(a, b), c) /\ Ge(Add(b, c), a) /\ Ge(Add(a, c), b)

\* the guard of get_triangle_vertices_from_sss
TriangleInequality(a, b, c) ==
    Gt(Add(a, b), c) /\ Gt(Add(b, c), a) /\ Gt(Add(a, c), b)

\* law of cosines, clipped: cos(A) = (b^2 + c^2 - a^2) / (2bc)
cos_A(a, b, c) ==
    Clip(Div(Sub(Add(Mul(b, b), Mul(c, c)), Mul(a, a)), Mul(Two, Mul(b, c))),
         Neg(One), One)

\* vertices [A, B, C], or None when ValueError is raised
get_triangle_vertices_from_sss(a, b, c, base_center, base_angle) ==
    IF ~TriangleInequality(a, b, c) THEN None
    ELSE LET half_c == Div(c, Two)
             A0 == Vec(Neg(half_c), Zero)
             B0 == Vec(half_c, Zero)
             angle_A == np_arccos(cos_A(a, b, c))
             C0 == VAdd(A0, VScale(b, Vec(np_cos(angle_A), np_sin(angle_A))))
             theta == base_angle
             rotated == base_angle.deg # "0"
             A1 == IF rotated THEN MatVec(theta, A0) ELSE A0
             B1 == IF rotated THEN MatVec(theta, B0) ELSE B0
             C1 == IF rotated THEN MatVec(theta, C0) ELSE C0
         IN  <<VAdd(A1, base_center), VAdd(B1, base_center),
               VAdd(C1, base_center)>>

get_triangle_vertices_from_coordinates(coords) == coords

\* Python's vertices[k] for k in 0..2
At(vs, k) == vs[k + 1]

get_side_midpoint(vs, side_index) ==
    LET i == side_index
        j == (side_index + 1) % 3
    IN  VDiv(VAdd(At(vs, i), At(vs, j)), Two)

\* mutant: the side is taken to the previous vertex instead of the next
get_side_length_prev(vs, side_index) ==
    LET i == side_index
        j == (side_index + 2) % 3
    IN  Norm(VSub(At(vs, j), At(vs, i)))

get_side_length(vs, side_index) ==
    LET i == side_index
        j == (side_index + 1) % 3
    IN  Norm(VSub(At(vs, j), At(vs, i)))

get_outward_direction(vs, side_index) ==
    LET i == side_index
        j == (side_index + 1) % 3
        k == (side_index + 2) % 3
        side_vec == VSub(At(vs, j), At(vs, i))
        perp0 == Vec(Neg(side_vec[2]), side_vec[1])
        perp == VDiv(perp0, Norm(perp0))
        midpoint == VDiv(VAdd(At(vs, i), At(vs, j)), Two)
        to_opposite == VSub(At(vs, k), midpoint)
    IN  IF Gt(Dot(perp, to_opposite), Zero) THEN VNeg(perp) ELSE perp

\* mutant: the angle of the next vertex is reported
get_vertex_angle_shifted(vs, vertex_index) ==
    LET i == (vertex_index + 1) % 3
        prev_i == (i - 1) % 3
        next_i == (i + 1) % 3
        v1 == VSub(At(vs, prev_i), At(vs, i))
        v2 == VSub(At(vs, next_i), At(vs, i))
        cos_angle == Clip(Div(Dot(v1, v2), Mul(Norm(v1), Norm(v2))),
                          Neg(One), One)
    IN  np_arccos(cos_angle)

\* mutant: the second vector starts at the previous vertex
get_vertex_angle_wrong_origin(vs, vertex_index) ==
    LET i == vertex_index
        prev_i == (i - 1) % 3
        next_i == (i + 1) % 3
        v1 == VSub(At(vs, prev_i), At(vs, i))
        v2 == VSub(At(vs, next_i), At(vs, prev_i))
        cos_angle == Clip(Div(Dot(v1, v2), Mul(Norm(v1), Norm(v2))),
                          Neg(One), One)
    IN  np_arccos(cos_angle)

get_vertex_angle(vs, vertex_index) ==
    LET i == vertex_index
        prev_i == (i - 1) % 3
        next_i == (i + 1) % 3
        v1 == VSub(At(vs, prev_i), At(vs, i))
        v2 == VSub(At(vs, next_i), At(vs, i))
        cos_angle == Clip(Div(Dot(v1, v2), Mul(Norm(v1), Norm(v2))),
                          Neg(One), One)
    IN  np_arccos(cos_angle)

(***************************************************************************)
(* pages/maths/Triangles.py: one run of the page script.  The inputs are  *)
(* the widget values; build_triangle makes the vertices, render_triangle  *)
(* places the side labels and the caption reports angles and sides.       *)
(***************************************************************************)
Centers == {Vec(Zero, Zero), Vec(One, Q(-1, 2))}

TriangleAngles == {Deg0, Deg90, DegAtan43, DegNegAtan34}

Sides == -1..MaxSide

Grid == {Vec(I(x), I(y)) : x \in 0..MaxCoord, y \in 0..MaxCoord}

SSSInputs ==
    [method : {"sss"}, a : Sides, b : Sides, c : Sides,
     base_center : Centers, base_angle : TriangleAngles]

CoordinateInputs ==
    [method : {"coordinates"}, coords : Grid \X Grid \X Grid]

InitTriangle ==
    /\ args \in SSSInputs \cup CoordinateInputs
    /\ pc = "build"
    /\ vertices = Pending
    /\ info = Pending
    /\ turns = 0
    /\ ModulesNotLoaded

build_triangle ==
    /\ pc = "build"
    /\ args.method \in {"sss", "coordinates"}
    /\ vertices' =
         IF args.method = "sss"
         THEN get_triangle_vertices_from_sss(I(args.a), I(args.b), I(args.c),
                                             args.base_center, args.base_angle)
         ELSE get_triangle_vertices_from_coordinates(args.coords)
    /\ pc' = IF vertices' = None THEN "error" ELSE "render"
    /\ UNCHANGED <<chem, session_state, args, info, turns>>

\* the side labels of render_triangle, drawn with direction 'auto'
render_triangle ==
    /\ pc = "render"
    /\ Len(vertices) = 3
    /\ info' = [offset_dir |->
                  [s \in 0..2 |-> get_outward_direction(vertices, s)]]
    /\ pc' = "caption"
    /\ UNCHANGED <<chem, session_state, args, vertices, turns>>

\* the caption under the controls: angles and sides of the triangle
triangle_caption ==
    /\ pc = "caption"
    /\ Len(vertices) = 3
    /\ info' = [offset_dir |-> info.offset_dir,
                angles |-> [i \in 0..2 |-> get_vertex_angle(vertices, i)],
                sides |-> [i \in 0..2 |-> get_side_length(vertices, i)]]
    /\ pc' = "done"
    /\ UNCHANGED <<chem, session_state, args, vertices, turns>>

NextTriangle == build_triangle \/ render_triangle \/ triangle_caption

SpecTriangle == InitTriangle /\ [][NextTriangle]_vars

(***************************************************************************)
(* Properties of the triangle functions.                                   *)
(***************************************************************************)
IsSSS == args.method = "sss"

\* the strict triangle inequality on the side lengths as entered
StrictInequality == /\ args.a + args.b > args.c
                    /\ args.b + args.c > args.a
                    /\ args.a + args.c > args.b

\* C1: get_triangle_vertices_from_sss fails and returns no vertices exactly
\* when the strict triangle inequality is violated (equality included);
\* otherwise it returns three vertices.
C1_SSSRejectsExactlyInvalidTriples ==
    (IsSSS /\ pc # "build") =>
        /\ (vertices = None) <=> ~StrictInequality
        /\ (pc = "error") <=> ~StrictInequality
        /\ StrictInequality =>
             /\ Len(vertices) = 3
             /\ \A k \in 1..3 : IsPoint(vertices[k])

C1_Witness ==
    /\ IsSSS /\ pc = "error" /\ vertices = None
    /\ args.a = 2 /\ args.b = 3 /\ args.c = 5

\* the side triple was accepted: vertices were built
SSSAccepted == IsSSS /\ pc # "build" /\ vertices # None

\* C30: every side triple accepted by get_triangle_vertices_from_sss has a,
\* b and c strictly positive, so the denominator 2*b*c of the law of cosines
\* is not zero and the quotient is a number
C30_AcceptedSidesPositive ==
    SSSAccepted =>
        /\ args.a > 0 /\ args.b > 0 /\ args.c > 0
        /\ Mul(Two, Mul(I(args.b), I(args.c))) # Zero
        /\ IsNum(Div(Sub(Add(Mul(I(args.b), I(args.b)),
                              Mul(I(args.c), I(args.c))),
                          Mul(I(args.a), I(args.a))),
                      Mul(Two, Mul(I(args.b), I(args.c)))))

\* a triangle with the shortest side the model has is accepted
C30_Witness ==
    SSSAccepted /\ pc = "done" /\ args.a = 1 /\ args.b = args.c

\* C2: for a valid side triple, any base_center and any base_angle, the
\* built triangle has side length c on A-B, a on B-C and b on C-A.
C2_SidesReproduceInput ==
    (IsSSS /\ pc = "done") =>
        /\ info.sides[0] = I(args.c)
        /\ info.sides[1] = I(args.a)
        /\ info.sides[2] = I(args.b)

\* a scalene triangle with an irrational apex, rotated and translated
C2_Witness ==
    /\ IsSSS /\ pc = "done"
    /\ args.a = 2 /\ args.b = 3 /\ args.c = 4
    /\ args.base_angle = DegAtan43 /\ args.base_center # Vec(Zero, Zero)
    /\ ~IsRational(vertices[3][1])
    /\ info.sides = [i \in 0..2 |-> I(<<4, 2, 3>>[i + 1])]

IsRightAngle(t) == t.cos = Zero /\ t.sin = One

\* C3: for sides (3, 4, 5) the right angle is at the apex C (index 2),
\* opposite the base of length 5, and at no other vertex.
C3_RightAngleAtApex ==
    (IsSSS /\ pc = "done" /\ args.a = 3 /\ args.b = 4 /\ args.c = 5) =>
        /\ IsRightAngle(info.angles[2])
        /\ ~IsRightAngle(info.angles[0])
        /\ ~IsRightAngle(info.angles[1])
        /\ IsNum(info.angles[0].cos) /\ IsNum(info.angles[1].cos)

C3_Witness ==
    /\ IsSSS /\ pc = "done" /\ args.a = 3 /\ args.b = 4 /\ args.c = 5
    /\ args.base_angle = Deg90
    /\ IsRightAngle(info.angles[2])

\* a vector with the direction of (cos t, sin t): when both are rational
\* multiples of the same root, the coefficients; otherwise cos and sin
Ray(t) ==
    IF t.cos.p = RZero /\ t.sin.p = RZero /\ (t.cos.q # RZero \/ t.sin.q # RZero)
    THEN Vec(Mk(t.cos.q, RZero, 1), Mk(t.sin.q, RZero, 1))
    ELSE Vec(t.cos, t.sin)

\* complex product (u1 + i u2)(v1 + i v2)
CMul(u, v) == Vec(Sub(Mul(u[1], v[1]), Mul(u[2], v[2])),
                  Add(Mul(u[1], v[2]), Mul(u[2], v[1])))

IsStraight(t) == t.sin = Zero /\ Sign(t.cos) = -1

\* three angles of [0, 180] sum to 180 or 540 exactly when the product of
\* their rays is a negative real; the sum 540 needs three straight angles
SumIs180(t) ==
    LET z == CMul(CMul(Ray(t[0]), Ray(t[1])), Ray(t[2]))
    IN  /\ z[2] = Zero
        /\ Sign(z[1]) = -1
        /\ ~(\A i \in 0..2 : IsStraight(t[i]))

Distinct(vs) == \A i, j \in 1..Len(vs) : i # j => vs[i] # vs[j]

\* C4: the three interior angles of a triangle with non-coincident
\* vertices sum to 180 degrees.
C4_AnglesSumTo180 ==
    (pc = "done" /\ args.method \in {"sss", "coordinates"} /\ Distinct(vertices))
        => SumIs180(info.angles)

\* a scalene triangle whose three angles have different irrational cosines
C4_Witness ==
    /\ pc = "done" /\ args.method = "coordinates"
    /\ vertices = <<Vec(I(0), I(0)), Vec(I(1), I(0)), Vec(I(2), I(2))>>
    /\ info.angles[0].cos.d = 2 /\ info.angles[1].cos.d = 5
    /\ info.angles[2].cos.d = 10
    /\ SumIs180(info.angles)

(***************************************************************************)
(* quadrilateral_utils.py                                                  *)
(***************************************************************************)
get_quadrilateral_vertices_from_coordinates(coords) == coords

get_centroid(vs) == np_mean(vs)

\* mutant: the points are rotated about the origin whatever the center
rotate_points_about_origin(points, angle_deg, center) ==
    [k \in 1..Len(points) |-> MatVec(angle_deg, points[k])]

\* np.dot(points - center, R.T) + center, row by row
rotate_points(points, angle_deg, center) ==
    [k \in 1..Len(points) |->
        VAdd(MatVec(angle_deg, VSub(points[k], center)), center)]

Origin == Vec(Zero, Zero)

Translate(points, center) == [k \in 1..Len(points) |-> VAdd(points[k], center)]

get_square(side_length, center, rotation) ==
    LET half == Div(side_length, Two)
        vs == <<Vec(Neg(half), Neg(half)), Vec(half, Neg(half)),
                Vec(half, half), Vec(Neg(half), half)>>
        rot == IF rotation.deg # "0" THEN rotate_points(vs, rotation, Origin)
               ELSE vs
    IN  Translate(rot, center)

get_rectangle(width, height, center, rotation) ==
    LET hw == Div(width, Two)
        hh == Div(height, Two)
        vs == <<Vec(Neg(hw), Neg(hh)), Vec(hw, Neg(hh)),
                Vec(hw, hh), Vec(Neg(hw), hh)>>
        rot == IF rotation.deg # "0" THEN rotate_points(vs, rotation, Origin)
               ELSE vs
    IN  Translate(rot, center)

\* vertices - centroid + center
Recenter(vs, center) ==
    LET centroid == get_centroid(vs)
    IN  [k \in 1..Len(vs) |-> VAdd(VSub(vs[k], centroid), center)]

\* mutant: the shape is moved by center without being centred first
get_parallelogram_uncentred(base, side, angle_deg, center, rotation) ==
    LET offset_x == Mul(side, np_cos(angle_deg))
        offset_y == Mul(side, np_sin(angle_deg))
        vs == <<Vec(Zero, Zero), Vec(base, Zero),
                Vec(Add(base, offset_x), offset_y), Vec(offset_x, offset_y)>>
        centred == Translate(vs, center)
    IN  IF rotation.deg # "0" THEN rotate_points(centred, rotation, center)
        ELSE centred

get_parallelogram(base, side, angle_deg, center, rotation) ==
    LET offset_x == Mul(side, np_cos(angle_deg))
        offset_y == Mul(side, np_sin(angle_deg))
        vs == <<Vec(Zero, Zero), Vec(base, Zero),
                Vec(Add(base, offset_x), offset_y), Vec(offset_x, offset_y)>>
        centred == Recenter(vs, center)
    IN  IF rotation.deg # "0" THEN rotate_points(centred, rotation, center)
        ELSE centred

get_rhombus(side, angle_deg, center, rotation) ==
    get_parallelogram(side, side, angle_deg, center, rotation)

get_trapezium(parallel_top, parallel_bottom, height, offset, center, rotation) ==
    LET hb == Div(parallel_bottom, Two)
        ht == Div(parallel_top, Two)
        vs == <<Vec(Neg(hb), Zero), Vec(hb, Zero),
                Vec(Add(offset, ht), height), Vec(Sub(offset, ht), height)>>
        centred == Recenter(vs, center)
    IN  IF rotation.deg # "0" THEN rotate_points(centred, rotation, center)
        ELSE centred

\* mutant: the split is measured from the top
get_kite_split_from_top(d1, d2, split_ratio, center, rotation) ==
    LET h1 == Div(d1, Two)
        v_top == Mul(d2, split_ratio)
        v_bottom == Mul(d2, Sub(One, split_ratio))
        vs == <<Vec(Neg(h1), Zero), Vec(Zero, Neg(v_bottom)),
                Vec(h1, Zero), Vec(Zero, v_top)>>
        moved == Translate(vs, center)
    IN  IF rotation.deg # "0" THEN rotate_points(moved, rotation, center)
        ELSE moved

get_kite(d1, d2, split_ratio, center, rotation) ==
    LET h1 == Div(d1, Two)
        v_bottom == Mul(d2, split_ratio)
        v_top == Mul(d2, Sub(One, split_ratio))
        vs == <<Vec(Neg(h1), Zero), Vec(Zero, Neg(v_bottom)),
                Vec(h1, Zero), Vec(Zero, v_top)>>
        moved == Translate(vs, center)
    IN  IF rotation.deg # "0" THEN rotate_points(moved, rotation, center)
        ELSE moved

get_isosceles_trapezium(parallel_top, parallel_bottom, height, center, rotation) ==
    get_trapezium(parallel_top, parallel_bottom, height, Zero, center, rotation)

\* u / (|u| + 1e-10).  For u # 0 this is u/|u| scaled by 1/(1 + 1e-10/|u|),
\* a factor the model takes as 1; for u = 0 it is the zero vector.
DivNormEps(u) == IF Norm(u) = Zero THEN u ELSE VDiv(u, Norm(u))

\* mutant: the normal is flipped when it points away from the centroid
quad_side_normal_inward(p1, p2, mid, direction, centroid) ==
    LET side_vec == VSub(p2, p1)
        perp == DivNormEps(Vec(Neg(side_vec[2]), side_vec[1]))
    IN  IF direction = "auto" /\ centroid # None
        THEN IF Lt(Dot(perp, VSub(centroid, mid)), Zero) THEN VNeg(perp)
             ELSE perp
        ELSE IF direction \in {"below", "left"}
        THEN IF Gt(perp[2], Zero) \/ (perp[2] = Zero /\ Gt(perp[1], Zero))
             THEN VNeg(perp) ELSE perp
        ELSE IF direction \in {"above", "right"}
        THEN IF Lt(perp[2], Zero) \/ (perp[2] = Zero /\ Lt(perp[1], Zero))
             THEN VNeg(perp) ELSE perp
        ELSE perp

\* the normal chosen by draw_side_label for the side p1-p2
quad_side_normal(p1, p2, mid, direction, centroid) ==
    LET side_vec == VSub(p2, p1)
        perp == DivNormEps(Vec(Neg(side_vec[2]), side_vec[1]))
    IN  IF direction = "auto" /\ centroid # None
        THEN IF Gt(Dot(perp, VSub(centroid, mid)), Zero) THEN VNeg(perp)
             ELSE perp
        ELSE IF direction \in {"below", "left"}
        THEN IF Gt(perp[2], Zero) \/ (perp[2] = Zero /\ Gt(perp[1], Zero))
             THEN VNeg(perp) ELSE perp
        ELSE IF direction \in {"above", "right"}
        THEN IF Lt(perp[2], Zero) \/ (perp[2] = Zero /\ Lt(perp[1], Zero))
             THEN VNeg(perp) ELSE perp
        ELSE perp

\* draw_side_label of quadrilateral_utils: where the text is placed
draw_side_label(p1, p2, position, direction, distance, centroid) ==
    LET mid == VAdd(VScale(Sub(One, position), p1), VScale(position, p2))
        perp == quad_side_normal(p1, p2, mid, direction, centroid)
    IN  [mid |-> mid, perp |-> perp,
         label_pos |-> VAdd(mid, VScale(distance, perp))]

(***************************************************************************)
(* pages/maths/Quadrilaterals.py: one run of the page script, followed    *)
(* for a square by successive quarter turns with rotate_points.           *)
(***************************************************************************)
QuadAngles == {Deg0, Deg90, DegAtan43}

ParallelogramAngles == {Deg90, DegAtan43, DegObtuse}

Lengths == 1..MaxLen

Diagonals == 1..MaxDiag

Offsets == {-1, 0, 1}

Splits == {Q(0, 1), Q(3, 10), Q(1, 2), Q(1, 1)}

Directions == {"auto", "above", "below", "left", "right"}

DefaultDistance == Q(2, 5)

PresetInputs ==
    LET Common(t) == [method : {"preset"}, preset_type : {t}, center : Centers,
                      rotation : QuadAngles, direction : {"auto"},
                      position : {Q(1, 2)}]
        With(t, F) == {c @@ f : c \in Common(t), f \in F}
    IN  With("Square", [side : Lengths])
        \cup With("Rectangle", [w : Lengths, h : Lengths])
        \cup With("Parallelogram",
                  [base : Lengths, side : Lengths, angle : ParallelogramAngles])
        \cup With("Rhombus", [side : Lengths, angle : ParallelogramAngles])
        \cup With("Trapezium", [top : Lengths, bottom : Lengths,
                                height : Lengths, offset : Offsets])
        \cup With("Isosceles trapezium",
                  [top : Lengths, bottom : Lengths, height : Lengths])
        \cup With("Kite", [d1 : Diagonals, d2 : Diagonals, split : Splits])

GridInt == (0..MaxCoord) \X (0..MaxCoord)

Cross(o, u, v) == (u[1] - o[1]) * (v[2] - o[2]) - (u[2] - o[2]) * (v[1] - o[1])

\* a strictly convex quadrilateral of either winding order
IsConvexQuad(q) ==
    LET turn == [k \in 1..4 |->
                   Sgn(Cross(q[k], q[(k % 4) + 1], q[((k + 1) % 4) + 1]))]
    IN  turn[1] # 0 /\ \A k \in 1..4 : turn[k] = turn[1]

ToPoints(q) == [k \in 1..Len(q) |-> Vec(I(q[k][1]), I(q[k][2]))]

QuadCoordinateInputs ==
    {[method |-> "quad coordinates", coords |-> ToPoints(q),
      direction |-> d, position |-> t] :
        q \in {r \in GridInt \X GridInt \X GridInt \X GridInt : IsConvexQuad(r)},
        d \in Directions, t \in {Q(1, 4)}}

InitQuadrilateral ==
    /\ args \in PresetInputs \cup QuadCoordinateInputs
    /\ pc = "build"
    /\ vertices = Pending
    /\ info = Pending
    /\ turns = 0
    /\ ModulesNotLoaded

build_preset(a) ==
    CASE a.preset_type = "Square" ->
           get_square(I(a.side), a.center, a.rotation)
      [] a.preset_type = "Rectangle" ->
           get_rectangle(I(a.w), I(a.h), a.center, a.rotation)
      [] a.preset_type = "Parallelogram" ->
           get_parallelogram(I(a.base), I(a.side), a.angle, a.center, a.rotation)
      [] a.preset_type = "Rhombus" ->
           get_rhombus(I(a.side), a.angle, a.center, a.rotation)
      [] a.preset_type = "Trapezium" ->
           get_trapezium(I(a.top), I(a.bottom), I(a.height), I(a.offset),
                         a.center, a.rotation)
      [] a.preset_type = "Isosceles trapezium" ->
           get_isosceles_trapezium(I(a.top), I(a.bottom), I(a.height),
                                   a.center, a.rotation)
      [] a.preset_type = "Kite" ->
           get_kite(I(a.d1), I(a.d2), a.split, a.center, a.rotation)

build_quadrilateral ==
    /\ pc = "build"
    /\ args.method \in {"preset", "quad coordinates"}
    /\ vertices' = IF args.method = "preset" THEN build_preset(args)
                   ELSE get_quadrilateral_vertices_from_coordinates(args.coords)
    /\ pc' = "render"
    /\ UNCHANGED <<chem, session_state, args, info, turns>>

\* the centroid and the four side labels of render_quadrilateral
render_quadrilateral ==
    /\ pc = "render"
    /\ Len(vertices) = 4
    /\ LET centroid == get_centroid(vertices)
       IN  info' = [centroid |-> centroid,
                    side_label |->
                      [i \in 0..3 |->
                         draw_side_label(vertices[i + 1], vertices[((i + 1) % 4) + 1],
                                         args.position, args.direction,
                                         DefaultDistance, centroid)]]
    /\ pc' = "done"
    /\ UNCHANGED <<chem, session_state, args, vertices, turns>>

\* a quarter turn of the built square about its centre
rotate_square ==
    /\ pc = "done"
    /\ args.method = "preset" /\ args.preset_type = "Square"
    /\ turns < MaxTurns
    /\ vertices' = rotate_points(vertices, Deg90, args.center)
    /\ turns' = turns + 1
    /\ UNCHANGED <<chem, session_state, args, pc, info>>

NextQuadrilateral == build_quadrilateral \/ render_quadrilateral \/ rotate_square

SpecQuadrilateral == InitQuadrilateral /\ [][NextQuadrilateral]_vars

(***************************************************************************)
(* Properties of the quadrilateral functions and of the outward normals.  *)
(***************************************************************************)
IsTrianglePage == args.method \in {"sss", "coordinates"}

IsQuadPage == args.method \in {"preset", "quad coordinates"}

IsPreset == args.method = "preset"

\* the sides of the polygon have non-zero length
ProperSides(vs) ==
    \A k \in 1..Len(vs) : vs[k] # vs[(k % Len(vs)) + 1]

SideMidpoint(vs, s) ==
    VDiv(VAdd(vs[s + 1], vs[((s + 1) % Len(vs)) + 1]), Two)

\* n . (centroid - midpoint of side s) <= 0
PointsOutward(n, vs, s) ==
    Le(Dot(n, VSub(np_mean(vs), SideMidpoint(vs, s))), Zero)

\* C5: for either winding order, the normal chosen for a side label of a
\* triangle (get_outward_direction) or of a quadrilateral ('auto' with a
\* centroid) never points towards the centroid.
C5_NormalPointsOutward ==
    /\ (IsTrianglePage /\ pc \in {"caption", "done"} /\ Distinct(vertices)) =>
          \A s \in 0..2 : PointsOutward(info.offset_dir[s], vertices, s)
    /\ (IsQuadPage /\ pc = "done" /\ turns = 0 /\ args.direction = "auto"
          /\ ProperSides(vertices)) =>
          \A s \in 0..3 : PointsOutward(info.side_label[s].perp, vertices, s)

\* a counter-clockwise square: the perpendicular of side A-B points inward
\* and is flipped
C5_Witness ==
    /\ args.method = "quad coordinates" /\ pc = "done"
    /\ args.direction = "auto"
    /\ vertices = ToPoints(<<<<0, 0>>, <<2, 0>>, <<2, 2>>, <<0, 2>>>>)
    /\ info.side_label[0].perp = Vec(Zero, Neg(One))

\* the unit normal of side s before any flip: the side vector turned
\* counter-clockwise by 90 degrees
SideNormal(vs, s) ==
    LET side_vec == VSub(vs[((s + 1) % Len(vs)) + 1], vs[s + 1])
    IN  DivNormEps(Vec(Neg(side_vec[2]), side_vec[1]))

AbsR(x) == IF Lt(x, Zero) THEN Neg(x) ELSE x

MainlyRight(u) == Gt(u[1], Zero) /\ Gt(AbsR(u[1]), AbsR(u[2]))

MainlyLeft(u) == Lt(u[1], Zero) /\ Gt(AbsR(u[1]), AbsR(u[2]))

\* C14: with direction 'below', 'left', 'above' or 'right' the offset of a
\* side label is the unit normal n of the side or its opposite; a normal
\* whose larger component has the wrong sign for the direction asked is
\* flipped and one whose larger component has the right sign is kept, so a
\* 'left' label is never offset mainly to the right, nor a 'right' label
\* mainly to the left.
C14_SideLabelOverrideRule ==
    (/\ args.method = "quad coordinates" /\ pc = "done"
     /\ args.direction \in {"below", "left", "above", "right"}) =>
        \A s \in 0..3 :
            LET n == SideNormal(vertices, s)
                perp == info.side_label[s].perp
                x_dominant == Gt(AbsR(n[1]), AbsR(n[2]))
                y_dominant == Gt(AbsR(n[2]), AbsR(n[1]))
                wrong ==
                    CASE args.direction = "below" -> y_dominant /\ Gt(n[2], Zero)
                      [] args.direction = "above" -> y_dominant /\ Lt(n[2], Zero)
                      [] args.direction = "left" -> x_dominant /\ Gt(n[1], Zero)
                      [] args.direction = "right" -> x_dominant /\ Lt(n[1], Zero)
                right ==
                    CASE args.direction = "below" -> y_dominant /\ Lt(n[2], Zero)
                      [] args.direction = "above" -> y_dominant /\ Gt(n[2], Zero)
                      [] args.direction = "left" -> x_dominant /\ Lt(n[1], Zero)
                      [] args.direction = "right" -> x_dominant /\ Gt(n[1], Zero)
            IN  /\ perp \in {n, VNeg(n)}
                /\ wrong => perp = VNeg(n)
                /\ right => perp = n
                /\ args.direction = "left" => ~MainlyRight(perp)
                /\ args.direction = "right" => ~MainlyLeft(perp)

\* C6 as stated: every preset, the kite included, has the mean of its
\* vertices at the requested center, with or without rotation.
C6_EveryPresetCentredOnCentroid ==
    (IsPreset /\ pc = "done") => info.centroid = args.center

\* where get_kite leaves the mean of the vertices: the crossing point of
\* the diagonals is at center, the mean d2*(1 - 2*split)/4 above it
KiteCentroid(a) ==
    VAdd(a.center,
         MatVec(a.rotation,
                Vec(Zero, Div(Mul(I(a.d2), Sub(One, Mul(Two, a.split))), I(4)))))

\* C6 amended: square, rectangle, parallelogram, rhombus, trapezium and
\* isosceles trapezium have the mean of their vertices at center, with or
\* without rotation; the kite has the crossing point of its diagonals at
\* center and is rotated about it, so the mean of its vertices is at center
\* exactly when split = 1/2.
C6_PresetsCentredExceptKite ==
    (IsPreset /\ pc = "done") =>
        IF args.preset_type = "Kite"
        THEN /\ info.centroid = KiteCentroid(args)
             /\ (info.centroid = args.center) <=> (args.split = Q(1, 2))
        ELSE info.centroid = args.center

C6_Witness ==
    /\ IsPreset /\ pc = "done" /\ args.preset_type = "Trapezium"
    /\ args.offset = 1 /\ args.top = 1 /\ args.bottom = 3
    /\ args.rotation = DegAtan43 /\ args.center # Origin
    /\ info.centroid = args.center

\* C7: without rotation and with center (0, 0) the kite has the vertices
\* (-d1/2, 0), (0, -split*d2), (d1/2, 0), (0, (1 - split)*d2) in this order.
C7_KiteVertices ==
    (IsPreset /\ args.preset_type = "Kite" /\ args.rotation = Deg0
        /\ args.center = Origin /\ pc # "build" /\ turns = 0) =>
        /\ vertices = <<Vec(Q(-args.d1, 2), Zero),
                        Vec(Zero, Neg(Mul(args.split, I(args.d2)))),
                        Vec(Q(args.d1, 2), Zero),
                        Vec(Zero, Mul(Sub(One, args.split), I(args.d2)))>>
        /\ (args.d1 = 4 /\ args.d2 = 6 /\ args.split = Q(1, 2)) =>
              vertices = <<Vec(I(-2), I(0)), Vec(I(0), I(-3)),
                           Vec(I(2), I(0)), Vec(I(0), I(3))>>

C7_Witness ==
    /\ IsPreset /\ args.preset_type = "Kite" /\ args.rotation = Deg0
    /\ args.center = Origin /\ pc = "done"
    /\ args.d1 = 4 /\ args.d2 = 6 /\ args.split = Q(3, 10)
    /\ vertices[2] = Vec(Zero, Q(-9, 5)) /\ vertices[4] = Vec(Zero, Q(21, 5))

Range(f) == {f[k] : k \in DOMAIN f}

IsSquare == IsPreset /\ args.preset_type = "Square"

BuiltSquare == get_square(I(args.side), args.center, args.rotation)

\* C8: every quarter turn of a square about its centre maps its set of
\* vertices onto itself, and four of them return every vertex to its place.
C8_SquareQuarterTurns ==
    (IsSquare /\ pc = "done") =>
        /\ Range(vertices) = Range(BuiltSquare)
        /\ (turns % 4 = 0) => vertices = BuiltSquare
        /\ (turns % 4 # 0) => vertices # BuiltSquare

C8_Witness ==
    /\ IsSquare /\ pc = "done" /\ turns = 4
    /\ args.rotation = DegAtan43 /\ args.center # Origin
    /\ vertices = BuiltSquare

(***************************************************************************)
(* circle_utils.py.  Angles are whole numbers of degrees.  A length or an *)
(* area is pi*pi_part + alg + k*sin(sin_deg degrees): pi_part, alg and k  *)
(* are exact reals, and the sine is kept as a term when it has no exact   *)
(* value in the representation.                                            *)
(***************************************************************************)
\* sin of a whole number of degrees in 0..90 that is a multiple of 30 or 45
SinTable(x) ==
    CASE x = 0 -> Zero
      [] x = 30 -> Q(1, 2)
      [] x = 45 -> Mk(RZero, <<1, 2>>, 2)
      [] x = 60 -> Mk(RZero, <<1, 2>>, 3)
      [] x = 90 -> One

\* sin(x degrees) for x a multiple of 30 or of 45
ExactSin(x) ==
    LET r == x % 360
    IN  IF r <= 90 THEN SinTable(r)
        ELSE IF r <= 180 THEN SinTable(180 - r)
        ELSE IF r <= 270 THEN Neg(SinTable(r - 180))
        ELSE Neg(SinTable(360 - r))

\* k * np.sin(np.radians(x)) for a rational number x of degrees
SinTerm(k, x) ==
    IF x.p[2] = 1 /\ (x.p[1] % 30 = 0 \/ x.p[1] % 45 = 0)
    THEN [pi_part |-> Zero, alg |-> Mul(k, ExactSin(x.p[1])), k |-> Zero,
          sin_deg |-> Zero]
    ELSE [pi_part |-> Zero, alg |-> Zero, k |-> k, sin_deg |-> x]

\* k * np.radians(x) = pi * k * x / 180
RadiansTerm(k, x) ==
    [pi_part |-> Div(Mul(k, x), I(180)), alg |-> Zero, k |-> Zero,
     sin_deg |-> Zero]

\* the sum of a multiple of pi and a sine term
Plus(u, v) == [pi_part |-> Add(u.pi_part, v.pi_part), alg |-> Add(u.alg, v.alg),
               k |-> Add(u.k, v.k),
               sin_deg |-> IF u.k = Zero THEN v.sin_deg ELSE u.sin_deg]

\* 2 * radius * sin(radians(angle_diff / 2))
chord_of_sweep(radius, angle_diff) ==
    SinTerm(Mul(Two, radius), Div(angle_diff, Two))

\* radius * radians(angle_diff)
arc_of_sweep(radius, angle_diff) == RadiansTerm(radius, angle_diff)

\* 0.5 * radius**2 * radians(angle_diff)
sector_of_sweep(radius, angle_diff) ==
    RadiansTerm(Mul(Q(1, 2), Mul(radius, radius)), angle_diff)

\* 0.5 * radius**2 * (theta - sin(theta))
segment_of_sweep(radius, angle_diff) ==
    LET half_r2 == Mul(Q(1, 2), Mul(radius, radius))
    IN  Plus(RadiansTerm(half_r2, angle_diff), SinTerm(Neg(half_r2), angle_diff))

get_chord_length(radius, angle1_degrees, angle2_degrees) ==
    LET d == Abs(angle2_degrees - angle1_degrees)
        angle_diff == IF d > 180 THEN 360 - d ELSE d
    IN  chord_of_sweep(radius, I(angle_diff))

get_arc_length(radius, angle1_degrees, angle2_degrees) ==
    LET d == Abs(angle2_degrees - angle1_degrees)
        angle_diff == IF d > 180 THEN 360 - d ELSE d
    IN  arc_of_sweep(radius, I(angle_diff))

\* mutant: the difference is taken without abs()
get_sector_area_signed(radius, angle1_degrees, angle2_degrees) ==
    LET d == angle2_degrees - angle1_degrees
        angle_diff == IF d > 180 THEN 360 - d ELSE d
    IN  sector_of_sweep(radius, I(angle_diff))

get_sector_area(radius, angle1_degrees, angle2_degrees) ==
    LET d == Abs(angle2_degrees - angle1_degrees)
        angle_diff == IF d > 180 THEN 360 - d ELSE d
    IN  sector_of_sweep(radius, I(angle_diff))

\* mutant: the difference is taken without abs()
get_segment_area_signed(radius, angle1_degrees, angle2_degrees) ==
    LET d == angle2_degrees - angle1_degrees
        angle_diff == IF d > 180 THEN 360 - d ELSE d
    IN  segment_of_sweep(radius, I(angle_diff))

get_segment_area(radius, angle1_degrees, angle2_degrees) ==
    LET d == Abs(angle2_degrees - angle1_degrees)
        angle_diff == IF d > 180 THEN 360 - d ELSE d
    IN  segment_of_sweep(radius, I(angle_diff))

\* the arc plotted by draw_central_angle_arc: np.linspace runs from
\* theta_from to theta_to (degrees) at radius arc_radius
draw_central_angle_arc(angle1, angle2, radius_fraction) ==
    LET arc_radius == radius_fraction
        diff == (angle2 - angle1) % 360
        swap == diff > 180
    IN  [theta_from |-> IF swap THEN angle2 ELSE angle1,
         theta_to |-> IF swap THEN angle1 ELSE angle2,
         arc_radius |-> arc_radius]

\* cos(x degrees) for x a multiple of 30 or of 45
ExactCos(x) == ExactSin(x + 90)

\* center + radius * (cos, sin) of a rational number of degrees
point_on_circle(center, radius, angle_degrees) ==
    LET a == angle_degrees.p
    IN  IF a[2] = 1 /\ (a[1] % 30 = 0 \/ a[1] % 45 = 0)
        THEN Vec(Add(center[1], Mul(radius, ExactCos(a[1]))),
                 Add(center[2], Mul(radius, ExactSin(a[1]))))
        ELSE Vec(Unsupported, Unsupported)

\* the arc plotted by draw_arc: np.linspace runs from theta_from to theta_to
draw_arc(start_angle, end_angle) ==
    LET end == IF end_angle < start_angle THEN end_angle + 360 ELSE end_angle
    IN  [theta_from |-> start_angle, theta_to |-> end]

\* the arc whose points are the vertices of the polygon of draw_segment
draw_segment(start_angle, end_angle) ==
    LET end == IF end_angle < start_angle THEN end_angle + 360 ELSE end_angle
    IN  [theta_from |-> start_angle, theta_to |-> end]

\* a direction given as a number of degrees (isinstance(direction, (int,
\* float))) is written as the numeral of that number
AngleDirections == {"0", "90", "180", "270"}

DirectionAngle(direction) ==
    CASE direction = "0" -> 0
      [] direction = "90" -> 90
      [] direction = "180" -> 180
      [] direction = "270" -> 270

\* draw_label: the offset direction and the position of the text; the
\* test norm > 1e-10 is norm > 0 on the exact inputs of the model
draw_label(position, direction, distance, reference_point) ==
    LET offset_dir ==
            IF direction = "auto" /\ reference_point # None
            THEN LET d == VSub(position, reference_point)
                 IN  IF Gt(Norm(d), Zero) THEN VDiv(d, Norm(d))
                     ELSE Vec(Zero, One)
            ELSE IF direction = "above" THEN Vec(Zero, One)
            ELSE IF direction = "below" THEN Vec(Zero, Neg(One))
            ELSE IF direction = "left" THEN Vec(Neg(One), Zero)
            ELSE IF direction = "right" THEN Vec(One, Zero)
            ELSE IF direction \in AngleDirections
                 THEN Vec(ExactCos(DirectionAngle(direction)),
                          ExactSin(DirectionAngle(direction)))
            ELSE Vec(Zero, One)
    IN  [offset_dir |-> offset_dir,
         label_pos |-> VAdd(position, VScale(distance, offset_dir))]

\* draw_line_label: perp is normalised only when its norm exceeds 1e-10
draw_line_label(point1, point2, position, direction, distance) ==
    LET label_base == VAdd(point1, VScale(position, VSub(point2, point1)))
        line_vec == VSub(point2, point1)
        perp0 == Vec(Neg(line_vec[2]), line_vec[1])
        perp == IF Gt(Norm(perp0), Zero) THEN VDiv(perp0, Norm(perp0))
                ELSE perp0
        offset_dir ==
            IF direction = "auto" THEN perp
            ELSE IF direction = "above" THEN Vec(Zero, One)
            ELSE IF direction = "below" THEN Vec(Zero, Neg(One))
            ELSE IF direction = "left" THEN Vec(Neg(One), Zero)
            ELSE IF direction = "right" THEN Vec(One, Zero)
            ELSE perp
    IN  [offset_dir |-> offset_dir,
         label_pos |-> VAdd(label_base, VScale(distance, offset_dir))]

\* draw_arc_label: the label sits outward of the midpoint of the arc
draw_arc_label(center, radius, start_angle, end_angle, distance) ==
    LET end == IF end_angle < start_angle THEN end_angle + 360 ELSE end_angle
        mid_angle == Q(start_angle + end, 2)
        arc_point == point_on_circle(center, radius, mid_angle)
        out0 == VSub(arc_point, center)
        outward_dir == IF Gt(Norm(out0), Zero) THEN VDiv(out0, Norm(out0))
                       ELSE out0
    IN  [mid_angle |-> mid_angle,
         offset_dir |-> outward_dir,
         label_pos |-> VAdd(arc_point, VScale(distance, outward_dir))]

(***************************************************************************)
(* Calls of the circle functions.                                          *)
(***************************************************************************)
CircleAngles == {45 * k : k \in -MaxAngleSteps..MaxAngleSteps}

CircleFunctions == {"get_chord_length", "get_arc_length", "get_sector_area",
                    "get_segment_area", "draw_central_angle_arc",
                    "draw_arc", "draw_segment"}

CircleInputs ==
    [method : {"circle"}, fn : CircleFunctions, radius : 1..MaxRadius,
     angle1 : CircleAngles, angle2 : CircleAngles]

\* angles whose half sums have an exact sine and cosine
QuarterAngles ==
    {90 * k : k \in -(MaxAngleSteps \div 2)..(MaxAngleSteps \div 2)}

\* the arc label of render_circle: distance = 0.5
ArcLabelInputs ==
    [method : {"circle"}, fn : {"draw_arc_label"}, center : Centers,
     radius : 1..MaxRadius, angle1 : QuarterAngles, angle2 : QuarterAngles]

LineDirections == {"auto", "above", "below", "left", "right", "center"}

\* a chord label of render_circle: position = 0.5, distance = 0.4
LineLabelInputs ==
    [method : {"circle"}, fn : {"draw_line_label"}, center : Centers,
     radius : 1..MaxRadius, angle1 : QuarterAngles, angle2 : QuarterAngles,
     direction : LineDirections]

LabelDirections == {"auto", "above", "below", "left", "right", "90", "180",
                    "center"}

\* a label at a point, with or without a reference point
LabelInputs ==
    [method : {"circle"}, fn : {"draw_label"}, position : Grid,
     with_reference : BOOLEAN, reference_point : Grid,
     direction : LabelDirections]

\* a point of a circle whose radius may be zero or negative
PointInputs ==
    [method : {"circle"}, fn : {"point_on_circle"}, center : Centers,
     radius : -1..MaxRadius, angle1 : QuarterAngles]

InitCircle ==
    /\ args \in CircleInputs \cup ArcLabelInputs \cup LineLabelInputs
                \cup LabelInputs \cup PointInputs
    /\ pc = "call"
    /\ vertices = Pending
    /\ info = Pending
    /\ turns = 0
    /\ ModulesNotLoaded

Call(fn, result) ==
    /\ pc = "call"
    /\ args.method = "circle"
    /\ args.fn = fn
    /\ info' = result
    /\ pc' = "done"
    /\ UNCHANGED <<chem, session_state, args, vertices, turns>>

call_get_chord_length ==
    Call("get_chord_length",
         get_chord_length(I(args.radius), args.angle1, args.angle2))

call_get_arc_length ==
    Call("get_arc_length",
         get_arc_length(I(args.radius), args.angle1, args.angle2))

call_get_sector_area ==
    Call("get_sector_area",
         get_sector_area(I(args.radius), args.angle1, args.angle2))

call_get_segment_area ==
    Call("get_segment_area",
         get_segment_area(I(args.radius), args.angle1, args.angle2))

\* the central angle marker of render_circle; the arc size is the radius
call_draw_central_angle_arc ==
    Call("draw_central_angle_arc",
         draw_central_angle_arc(args.angle1, args.angle2, I(args.radius)))

call_draw_arc ==
    Call("draw_arc", draw_arc(args.angle1, args.angle2))

call_draw_segment ==
    Call("draw_segment", draw_segment(args.angle1, args.angle2))

call_draw_arc_label ==
    Call("draw_arc_label",
         draw_arc_label(args.center, I(args.radius), args.angle1, args.angle2,
                        Q(1, 2)))

\* the label of a chord: its end points are points of the circle
call_draw_line_label ==
    LET p1 == point_on_circle(args.center, I(args.radius), I(args.angle1))
        p2 == point_on_circle(args.center, I(args.radius), I(args.angle2))
    IN  Call("draw_line_label",
             draw_line_label(p1, p2, Q(1, 2), args.direction, DefaultDistance))

call_draw_label ==
    Call("draw_label",
         draw_label(args.position, args.direction, DefaultDistance,
                    IF args.with_reference THEN args.reference_point
                    ELSE None))

call_point_on_circle ==
    Call("point_on_circle",
         point_on_circle(args.center, I(args.radius), I(args.angle1)))

NextCircle ==
    \/ call_point_on_circle
    \/ call_draw_arc
    \/ call_draw_segment
    \/ call_draw_arc_label
    \/ call_draw_line_label
    \/ call_draw_label
    \/ call_get_chord_length
    \/ call_get_arc_length
    \/ call_get_sector_area
    \/ call_get_segment_area
    \/ call_draw_central_angle_arc

SpecCircle == InitCircle /\ [][NextCircle]_vars

(***************************************************************************)
(* Properties of the circle functions.                                     *)
(***************************************************************************)
IsCall(fn) == args.method = "circle" /\ args.fn = fn /\ pc = "done"

\* C9: the arc plotted for a central angle is the shorter of the two arcs:
\* its sweep from start to end never exceeds 180 degrees.
C9_CentralAngleArcIsShorter ==
    IsCall("draw_central_angle_arc") =>
        Abs(info.theta_to - info.theta_from) <= 180

\* the smaller of |angle2 - angle1| and 360 - |angle2 - angle1|
SmallerSweep ==
    LET d == Abs(args.angle2 - args.angle1)
    IN  IF d <= 360 - d THEN d ELSE 360 - d

\* C10: chord length, arc length, sector area and segment area are all
\* computed from the smaller of |angle2 - angle1| and 360 - |angle2 - angle1|,
\* the same sweep for the same inputs, and are symmetric in the two angles.
C10_MeasuresUseSmallerSweep ==
    LET r == I(args.radius)
        s == I(SmallerSweep)
    IN  /\ IsCall("get_chord_length") =>
              /\ info = chord_of_sweep(r, s)
              /\ info = get_chord_length(r, args.angle2, args.angle1)
        /\ IsCall("get_arc_length") =>
              /\ info = arc_of_sweep(r, s)
              /\ info = get_arc_length(r, args.angle2, args.angle1)
        /\ IsCall("get_sector_area") =>
              /\ info = sector_of_sweep(r, s)
              /\ info = get_sector_area(r, args.angle2, args.angle1)
        /\ IsCall("get_segment_area") =>
              /\ info = segment_of_sweep(r, s)
              /\ info = get_segment_area(r, args.angle2, args.angle1)

\* angle1 = 315, angle2 = 0: the sweep is 360 - 315 = 45
C10_Witness ==
    /\ IsCall("get_segment_area")
    /\ args.angle1 = 315 /\ args.angle2 = 0 /\ args.radius = 2
    /\ info = [pi_part |-> Q(1, 2), alg |-> Mk(RZero, <<-1, 1>>, 2),
               k |-> Zero, sin_deg |-> Zero]

\* the set of points of the circle covered by np.linspace(theta_from,
\* theta_to): the whole circle, or the arc of sweep degrees counterclockwise
\* from start
ArcDrawn(a) ==
    LET sweep == a.theta_to - a.theta_from
    IN  IF Abs(sweep) >= 360 THEN [start |-> 0, sweep |-> 360]
        ELSE [start |-> (IF sweep >= 0 THEN a.theta_from ELSE a.theta_to) % 360,
              sweep |-> Abs(sweep)]

Invariant360(f(_, _)) ==
    \A s \in {-360, 360} :
        /\ f(args.angle1 + s, args.angle2) = f(args.angle1, args.angle2)
        /\ f(args.angle1, args.angle2 + s) = f(args.angle1, args.angle2)

\* C11: angles are reduced modulo 360 before any comparison: adding 360 or
\* -360 degrees to either angle of get_chord_length, get_arc_length,
\* get_sector_area or get_segment_area leaves the value returned unchanged,
\* and adding it to the start or the end angle of draw_arc, draw_segment or
\* draw_arc_label leaves the arc drawn and the place of the label unchanged.
C11_AnglesReducedModulo360 ==
    LET r == I(args.radius)
        chord(a, b) == get_chord_length(r, a, b)
        arc(a, b) == get_arc_length(r, a, b)
        sector(a, b) == get_sector_area(r, a, b)
        segment(a, b) == get_segment_area(r, a, b)
        arc_drawn(a, b) == ArcDrawn(draw_arc(a, b))
        segment_drawn(a, b) == ArcDrawn(draw_segment(a, b))
        label(a, b) == draw_arc_label(args.center, r, a, b, Q(1, 2)).label_pos
    IN  /\ IsCall("get_chord_length") =>
              info = chord(args.angle1, args.angle2) /\ Invariant360(chord)
        /\ IsCall("get_arc_length") =>
              info = arc(args.angle1, args.angle2) /\ Invariant360(arc)
        /\ IsCall("get_sector_area") =>
              info = sector(args.angle1, args.angle2) /\ Invariant360(sector)
        /\ IsCall("get_segment_area") =>
              info = segment(args.angle1, args.angle2) /\ Invariant360(segment)
        /\ IsCall("draw_arc") =>
              /\ ArcDrawn(info) = arc_drawn(args.angle1, args.angle2)
              /\ Invariant360(arc_drawn)
        /\ IsCall("draw_segment") =>
              /\ ArcDrawn(info) = segment_drawn(args.angle1, args.angle2)
              /\ Invariant360(segment_drawn)
        /\ IsCall("draw_arc_label") =>
              /\ info.label_pos = label(args.angle1, args.angle2)
              /\ Invariant360(label)

\* pi * r^2
CircleArea(r) ==
    [pi_part |-> Mul(r, r), alg |-> Zero, k |-> Zero, sin_deg |-> Zero]

\* C12 as stated: the sector from angle1 to angle2 and the sector obtained
\* with the two angles exchanged add up to the area of the whole circle.
C12_SectorPlusSwappedIsCircle ==
    IsCall("get_sector_area") =>
        Plus(info, get_sector_area(I(args.radius), args.angle2, args.angle1))
            = CircleArea(I(args.radius))

\* C12: get_sector_area returns the area of the sector of the smaller sweep
\* s whatever the order of the angles; added to the area of the sector of
\* the complementary sweep 360 - s it gives the area of the whole circle,
\* and the two orders of the angles add up to it only when s is 180.
C12_SectorPlusComplementIsCircle ==
    LET r == I(args.radius)
        swapped == get_sector_area(r, args.angle2, args.angle1)
    IN  IsCall("get_sector_area") =>
            /\ info = swapped
            /\ Plus(info, sector_of_sweep(r, I(360 - SmallerSweep)))
                   = CircleArea(r)
            /\ (Plus(info, swapped) = CircleArea(r)) <=> (SmallerSweep = 180)

\* radius 2, from 90 back to 0 degrees: a quarter of the circle, area pi
C12_Witness ==
    /\ IsCall("get_sector_area")
    /\ args.radius = 2 /\ args.angle1 = 90 /\ args.angle2 = 0
    /\ info = [pi_part |-> One, alg |-> Zero, k |-> Zero, sin_deg |-> Zero]

IsUnit(u) == IsPoint(u) /\ Dot(u, u) = One

Up == Vec(Zero, One)

\* C13: every offset direction of a label is a unit vector, never the zero
\* vector or NaN, and where the vector to normalise has length zero (a side
\* or a line between coincident points, a label on its reference point) the
\* direction is the fallback (0, 1).
C13_DirectionsAreUnitWithFallback ==
    /\ (IsTrianglePage /\ pc \in {"caption", "done"}) =>
          \A s \in 0..2 :
              /\ IsUnit(info.offset_dir[s])
              /\ (At(vertices, s) = At(vertices, (s + 1) % 3)) =>
                     info.offset_dir[s] = Up
    /\ (IsQuadPage /\ pc = "done") =>
          \A s \in 0..3 :
              /\ IsUnit(info.side_label[s].perp)
              /\ (vertices[s + 1] = vertices[((s + 1) % 4) + 1]) =>
                     info.side_label[s].perp = Up
    /\ IsCall("draw_label") =>
          /\ IsUnit(info.offset_dir)
          /\ (/\ args.direction = "auto" /\ args.with_reference
              /\ args.position = args.reference_point) =>
                 info.offset_dir = Up
    /\ IsCall("draw_line_label") =>
          /\ IsUnit(info.offset_dir)
          /\ (/\ args.direction \in {"auto", "center"}
              /\ (args.angle2 - args.angle1) % 360 = 0) =>
                 info.offset_dir = Up
    /\ IsCall("draw_arc_label") => IsUnit(info.offset_dir)

\* the error that invalid geometric input is to surface
InvalidGeometry == <<"InvalidGeometry">>

\* C19: invalid geometric input is rejected where the shape is made: a
\* circle radius that is zero or negative surfaces an InvalidGeometry error
\* and no point of the circle is returned.
C19_InvalidRadiusRejected ==
    (IsCall("point_on_circle") /\ args.radius <= 0) =>
        /\ ~IsPoint(info)
        /\ info = InvalidGeometry

(***************************************************************************)
(* dotcross_utils.py and formula_utils.py: molecules from SMILES strings. *)
(* A string is a tuple of characters.  RDKit is outside the repository:   *)
(* whether it is installed, what MolFromSmiles does (raises, returns None *)
(* or returns a molecule) and the molecule with its 2D coordinates are    *)
(* inputs.  A molecule is [atoms, bonds]: atoms a sequence of [symbol,    *)
(* pos], bonds a sequence of [begin, end, type] with atom indices from 0. *)
(* An error message with an interpolated value is the tuple of its parts. *)
(***************************************************************************)
RECURSIVE lstrip(_)
lstrip(str) == IF str # <<>> /\ Head(str) = " " THEN lstrip(Tail(str)) ELSE str

RECURSIVE rstrip(_)
rstrip(str) ==
    IF str # <<>> /\ str[Len(str)] = " "
    THEN rstrip(SubSeq(str, 1, Len(str) - 1)) ELSE str

\* str.strip()
strip(str) == rstrip(lstrip(str))

\* np.degrees(np.arctan2(y, x)) for a vector along an axis or a diagonal
arctan2_degrees(y, x) ==
    LET sx == Sign(x)
        sy == Sign(y)
    IN  IF sx # 0 /\ sy # 0 /\ Sub(x, y) # Zero /\ Add(x, y) # Zero
        THEN Unsupported
        ELSE CASE sx = 1 /\ sy = 0 -> I(0)
               [] sx = 1 /\ sy = 1 -> I(45)
               [] sx = 0 /\ sy = 1 -> I(90)
               [] sx = -1 /\ sy = 1 -> I(135)
               [] sx = -1 /\ sy = 0 -> I(180)
               [] sx = -1 /\ sy = -1 -> I(-135)
               [] sx = 0 /\ sy = -1 -> I(-90)
               [] sx = 1 /\ sy = -1 -> I(-45)
               [] sx = 0 /\ sy = 0 -> I(0)

\* x % 360 for a rational x
mod360(x) == Q(x.p[1] % (360 * x.p[2]), x.p[2])

\* list.sort() of a list of numbers
RECURSIVE list_sort(_)
list_sort(xs) ==
    IF xs = <<>> THEN <<>>
    ELSE LET x == Head(xs)
             rest == list_sort(Tail(xs))
         IN  SelectSeq(rest, LAMBDA y : Lt(y, x)) \o <<x>>
                 \o SelectSeq(rest, LAMBDA y : ~Lt(y, x))

\* the order of tuples (gap_size, gap_mid)
TupleGt(g, h) == Gt(g[1], h[1]) \/ (g[1] = h[1] /\ Gt(g[2], h[2]))

\* gaps.sort(reverse=True)
RECURSIVE sort_reverse(_)
sort_reverse(gaps) ==
    IF gaps = <<>> THEN <<>>
    ELSE LET g == Head(gaps)
             rest == sort_reverse(Tail(gaps))
         IN  SelectSeq(rest, LAMBDA h : TupleGt(h, g)) \o <<g>>
                 \o SelectSeq(rest, LAMBDA h : ~TupleGt(h, g))

Min(a, b) == IF a < b THEN a ELSE b

\* the (gap_size, gap_mid % 360) of the gaps between consecutive sorted
\* directions
gaps_between(sorted) ==
    LET k == Len(sorted)
    IN  [j \in 1..k |->
            LET gap_start == sorted[j]
                next == sorted[(j % k) + 1]
                gap_end == IF Lt(next, gap_start) THEN Add(next, I(360))
                           ELSE next
                gap_mid == Div(Add(gap_start, gap_end), Two)
                gap_size == Sub(gap_end, gap_start)
            IN  <<gap_size, mod360(gap_mid)>>]

\* mutant: the two pairs of a single bond are fanned by 45 degrees
lone_pair_angles_wide(num_lone_pairs, bonded_directions) ==
    IF Len(bonded_directions) = 0
    THEN [j \in 1..num_lone_pairs |-> Q((j - 1) * 360, num_lone_pairs)]
    ELSE LET sorted == list_sort(bonded_directions)
         IN  IF Len(sorted) = 1
             THEN LET base_angle == Add(sorted[1], I(180))
                  IN  CASE num_lone_pairs = 1 -> <<base_angle>>
                        [] num_lone_pairs = 2 ->
                             <<Sub(base_angle, I(45)), Add(base_angle, I(45))>>
                        [] num_lone_pairs = 3 ->
                             <<Sub(base_angle, I(45)), base_angle,
                               Add(base_angle, I(45))>>
                        [] OTHER -> <<>>
             ELSE LET gaps == sort_reverse(gaps_between(sorted))
                  IN  [j \in 1..Min(num_lone_pairs, Len(gaps)) |-> gaps[j][2]]

\* the angles of the lone pairs of an atom (the body of "if num_lone_pairs
\* > 0" in parse_smiles)
lone_pair_angles(num_lone_pairs, bonded_directions) ==
    IF Len(bonded_directions) = 0
    THEN [j \in 1..num_lone_pairs |-> Q((j - 1) * 360, num_lone_pairs)]
    ELSE LET sorted == list_sort(bonded_directions)
         IN  IF Len(sorted) = 1
             THEN LET base_angle == Add(sorted[1], I(180))
                  IN  CASE num_lone_pairs = 1 -> <<base_angle>>
                        [] num_lone_pairs = 2 ->
                             <<Sub(base_angle, I(30)), Add(base_angle, I(30))>>
                        [] num_lone_pairs = 3 ->
                             <<Sub(base_angle, I(45)), base_angle,
                               Add(base_angle, I(45))>>
                        [] OTHER -> <<>>
             ELSE LET gaps == sort_reverse(gaps_between(sorted))
                  IN  [j \in 1..Min(num_lone_pairs, Len(gaps)) |-> gaps[j][2]]

\* atom.GetSymbol() and conf.GetAtomPosition(idx) of atom idx
AtomSymbol(mol, idx) == mol.atoms[idx + 1].symbol

AtomPosition(mol, idx) == mol.atoms[idx + 1].pos

RECURSIVE SumOf(_)
SumOf(xs) == IF xs = <<>> THEN Zero ELSE Add(Head(xs), SumOf(Tail(xs)))

RECURSIVE SumInt(_)
SumInt(ns) == IF ns = <<>> THEN 0 ELSE Head(ns) + SumInt(Tail(ns))

\* scale for scale='auto': the target bond distance over the average bond
\* length, 0.6 for a molecule without bonds
auto_scale(mol, atom_radius, target_overlap) ==
    LET bond_lengths ==
            [j \in 1..Len(mol.bonds) |->
                Norm(VSub(AtomPosition(mol, mol.bonds[j].end),
                          AtomPosition(mol, mol.bonds[j].begin)))]
    IN  IF bond_lengths # <<>>
        THEN LET avg_bond_length == Div(SumOf(bond_lengths),
                                        I(Len(bond_lengths)))
                 target_bond_distance ==
                     Mul(atom_radius, Sub(Two, target_overlap))
             IN  Div(target_bond_distance, avg_bond_length)
        ELSE Q(3, 5)

\* the bond order recorded in 'bonds' by parse_smiles
bond_order(bond_type) ==
    CASE bond_type = "SINGLE" -> 1
      [] bond_type = "DOUBLE" -> 2
      [] bond_type = "TRIPLE" -> 3
      [] OTHER -> 1

\* the electrons an atom gives to a bond in the lone-pair count
bond_electrons(bond_type) ==
    CASE bond_type = "SINGLE" -> 1
      [] bond_type = "DOUBLE" -> 2
      [] bond_type = "TRIPLE" -> 3
      [] OTHER -> 0

\* mutant: only hydrogen is skipped
never_has_lone_pairs_only_H(symbol) == symbol = "H"

\* "if symbol in ('H', 'He'): continue"
never_has_lone_pairs(symbol) == symbol \in {"H", "He"}

\* the bonds of atom i, in the order of mol.GetBonds()
bonds_of(mol, i) == SelectSeq(mol.bonds, LAMBDA b : b.begin = i \/ b.end = i)

\* the directions from atom i to the atoms bonded to it, in degrees
bonded_directions_of(mol, i) ==
    LET bs == bonds_of(mol, i)
    IN  [j \in 1..Len(bs) |->
            LET other_idx == IF bs[j].begin = i THEN bs[j].end ELSE bs[j].begin
                my_pos == AtomPosition(mol, i)
                other_pos == AtomPosition(mol, other_idx)
            IN  arctan2_degrees(Sub(other_pos[2], my_pos[2]),
                                Sub(other_pos[1], my_pos[1]))]

\* valence - bonding_electrons, halved with //
num_lone_pairs_of(mol, i) ==
    LET symbol == AtomSymbol(mol, i)
        valence == IF symbol \in DOMAIN ELEMENT_DATA
                   THEN ELEMENT_DATA[symbol].outer_electrons ELSE 0
        bs == bonds_of(mol, i)
        bonding_electrons ==
            SumInt([j \in 1..Len(bs) |-> bond_electrons(bs[j].type)])
    IN  (valence - bonding_electrons) \div 2

\* the dictionary lone_pairs built by parse_smiles
lone_pairs_of(mol) ==
    LET angles(i) == lone_pair_angles(num_lone_pairs_of(mol, i),
                                      bonded_directions_of(mol, i))
        keys == {i \in 0..(Len(mol.atoms) - 1) :
                    /\ ~never_has_lone_pairs(AtomSymbol(mol, i))
                    /\ num_lone_pairs_of(mol, i) > 0
                    /\ angles(i) # <<>>}
    IN  [i \in keys |-> angles(i)]

\* mutant: the layout library is tried before the input is looked at
parse_smiles_import_first(smiles_string, scale, atom_radius, target_overlap, rdkit) ==
    IF ~rdkit.installed
    THEN <<None, <<"RDKit not installed. Run: pip install rdkit">>>>
    ELSE IF smiles_string = <<>> \/ strip(smiles_string) = <<>>
    THEN <<None, <<"Please enter a SMILES string">>>>
    ELSE IF rdkit.MolFromSmiles = "raises"
    THEN <<None, <<"Error parsing SMILES: ", rdkit.exception>>>>
    ELSE IF rdkit.MolFromSmiles = "None"
    THEN <<None, <<"Could not parse SMILES: ", strip(smiles_string)>>>>
    ELSE IF Len(rdkit.mol.atoms) = 0
    THEN <<None, <<"No atoms found in molecule">>>>
    ELSE LET mol == rdkit.mol
             factor == IF scale = "auto"
                       THEN auto_scale(mol, atom_radius, target_overlap)
                       ELSE scale
         IN  <<[type |-> "covalent",
                description |-> <<"Generated from SMILES: ",
                                  strip(smiles_string)>>,
                atoms |-> [k \in 1..Len(mol.atoms) |->
                             [element |-> mol.atoms[k].symbol,
                              position |-> VScale(factor, mol.atoms[k].pos)]],
                bonds |-> [k \in 1..Len(mol.bonds) |->
                             <<mol.bonds[k].begin, mol.bonds[k].end,
                               bond_order(mol.bonds[k].type)>>],
                lone_pairs |-> lone_pairs_of(mol)],
               None>>

\* parse_smiles: the pair (molecule_data, error).  rdkit.mol is the molecule
\* after Chem.AddHs and AllChem.Compute2DCoords.
parse_smiles(smiles_string, scale, atom_radius, target_overlap, rdkit) ==
    IF smiles_string = <<>> \/ strip(smiles_string) = <<>>
    THEN <<None, <<"Please enter a SMILES string">>>>
    ELSE IF ~rdkit.installed
    THEN <<None, <<"RDKit not installed. Run: pip install rdkit">>>>
    ELSE IF rdkit.MolFromSmiles = "raises"
    THEN <<None, <<"Error parsing SMILES: ", rdkit.exception>>>>
    ELSE IF rdkit.MolFromSmiles = "None"
    THEN <<None, <<"Could not parse SMILES: ", strip(smiles_string)>>>>
    ELSE IF Len(rdkit.mol.atoms) = 0
    THEN <<None, <<"No atoms found in molecule">>>>
    ELSE LET mol == rdkit.mol
             factor == IF scale = "auto"
                       THEN auto_scale(mol, atom_radius, target_overlap)
                       ELSE scale
         IN  <<[type |-> "covalent",
                description |-> <<"Generated from SMILES: ",
                                  strip(smiles_string)>>,
                atoms |-> [k \in 1..Len(mol.atoms) |->
                             [element |-> mol.atoms[k].symbol,
                              position |-> VScale(factor, mol.atoms[k].pos)]],
                bonds |-> [k \in 1..Len(mol.bonds) |->
                             <<mol.bonds[k].begin, mol.bonds[k].end,
                               bond_order(mol.bonds[k].type)>>],
                lone_pairs |-> lone_pairs_of(mol)],
               None>>

\* the bond order recorded by parse_smiles_for_formula; 1.5 is 3/2
formula_bond_order(bond_type) ==
    CASE bond_type = "SINGLE" -> I(1)
      [] bond_type = "DOUBLE" -> I(2)
      [] bond_type = "TRIPLE" -> I(3)
      [] bond_type = "AROMATIC" -> Q(3, 2)
      [] OTHER -> I(1)

\* parse_smiles_for_formula: the pair (data, error).  rdkit.mol is the
\* molecule after Chem.AddHs, when asked for, and AllChem.Compute2DCoords.
parse_smiles_for_formula(smiles_string, add_hydrogens, rdkit) ==
    IF smiles_string = <<>> \/ strip(smiles_string) = <<>>
    THEN <<None, <<"Please enter a SMILES string">>>>
    ELSE IF ~rdkit.installed
    THEN <<None, <<"RDKit not installed. Run: pip install rdkit">>>>
    ELSE IF rdkit.MolFromSmiles = "raises"
    THEN <<None, <<"Error parsing SMILES: ", rdkit.exception>>>>
    ELSE IF rdkit.MolFromSmiles = "None"
    THEN <<None, <<"Could not parse SMILES: ", strip(smiles_string)>>>>
    ELSE IF Len(rdkit.mol.atoms) = 0
    THEN <<None, <<"No atoms found in molecule">>>>
    ELSE LET mol == rdkit.mol
         IN  <<[atoms |-> [k \in 1..Len(mol.atoms) |->
                             [element |-> mol.atoms[k].symbol,
                              position |-> mol.atoms[k].pos,
                              index |-> k - 1]],
                bonds |-> [k \in 1..Len(mol.bonds) |->
                             [atom1 |-> mol.bonds[k].begin,
                              atom2 |-> mol.bonds[k].end,
                              order |-> formula_bond_order(mol.bonds[k].type)]],
                smiles |-> strip(smiles_string)],
               None>>

\* get_preset_molecule: the preset of that name, water for any other name
get_preset_molecule(name) ==
    IF name \in DOMAIN PRESET_MOLECULES THEN PRESET_MOLECULES[name]
    ELSE PRESET_MOLECULES["H2O"]

RECURSIVE CountAngles(_, _)
CountAngles(lone_pairs, keys) ==
    IF keys = {} THEN 0
    ELSE LET k == CHOOSE x \in keys : TRUE
         IN  Len(lone_pairs[k]) + CountAngles(lone_pairs, keys \ {k})

\* mutant: both electrons of a pair are drawn with the marker of the first atom
bond_markers_same(order, elem1_marker) == IF order \in 1..3 THEN [e \in 1..(2 * order) |-> elem1_marker] ELSE <<>>

\* the electrons drawn for a bond, in their order across the bond axis:
\* draw_bonding_pair for order 1, the lists 'markers' for orders 2 and 3,
\* nothing for any other order
bond_markers(order, elem1_marker) ==
    LET other == IF elem1_marker = "dot" THEN "cross" ELSE "dot"
    IN  IF order \in 1..3
        THEN [e \in 1..(2 * order) |->
                 IF e % 2 = 1 THEN elem1_marker ELSE other]
        ELSE <<>>

\* draw_covalent_molecule: what is put on the axes.  The first element of
\* the molecule is drawn with dots and every other element with crosses; a
\* bond of order 1, 2 or 3 shows 2, 4 or 6 electrons; every lone pair angle
\* of an atom shows one pair on its circle.
draw_covalent_molecule(molecule_data) ==
    LET atoms == molecule_data.atoms
        bonds == IF "bonds" \in DOMAIN molecule_data
                 THEN molecule_data.bonds ELSE <<>>
        lone_pairs == IF "lone_pairs" \in DOMAIN molecule_data
                      THEN molecule_data.lone_pairs ELSE <<>>
    IN  [circles |-> [k \in 1..Len(atoms) |-> atoms[k].element],
         markers |-> [k \in 1..Len(atoms) |->
                        IF atoms[k].element = atoms[1].element
                        THEN "dot" ELSE "cross"],
         shared |-> [k \in 1..Len(bonds) |->
                       IF bonds[k][3] \in 1..3 THEN 2 * bonds[k][3] ELSE 0],
         shared_markers |->
             [k \in 1..Len(bonds) |->
                 bond_markers(bonds[k][3],
                              IF atoms[bonds[k][1] + 1].element = atoms[1].element
                              THEN "dot" ELSE "cross")],
         lone |-> CountAngles(lone_pairs, DOMAIN lone_pairs)]

\* draw_ionic_compound: for every ion its symbol, its charge and the dots
\* and crosses of its outer shell, at most four pairs
draw_ionic_compound(molecule_data) ==
    LET atoms == molecule_data.atoms
        shown(atom) ==
            LET charge == IF "charge" \in DOMAIN atom THEN atom.charge ELSE ""
                n_electrons == IF "show_electrons" \in DOMAIN atom
                               THEN atom.show_electrons ELSE 0
                transferred == IF "transferred" \in DOMAIN atom
                               THEN atom.transferred ELSE 0
                original_count == n_electrons - transferred
                drawn == IF n_electrons > 0 THEN Min(n_electrons, 8) ELSE 0
                dots == IF original_count < 0 THEN 0
                        ELSE Min(drawn, original_count)
            IN  [element |-> atom.element, brackets |-> charge,
                 dots |-> dots, crosses |-> drawn - dots]
    IN  [k \in 1..Len(atoms) |-> shown(atoms[k])]

(***************************************************************************)
(* electron_shell_utils.py: shell diagrams of atoms and ions.              *)
(***************************************************************************)
\* draw_electron_shell_diagram: the symbol in the nucleus and the electrons
\* on each shell, or the ValueError of an unknown element
draw_electron_shell_diagram(element) ==
    IF element \notin DOMAIN ELECTRON_CONFIG
    THEN [raised |-> <<"ValueError", "Unknown element: ", element>>,
          symbol |-> "", charge |-> 0, shells |-> <<>>]
    ELSE LET config == ELECTRON_CONFIG[element]
         IN  [raised |-> None, symbol |-> config.symbol, charge |-> 0,
              shells |-> config.shells]

\* electrons are taken from the outermost shell inwards
RECURSIVE remove_electrons(_, _)
remove_electrons(shells, electrons_to_change) ==
    IF shells = <<>> \/ electrons_to_change <= 0 THEN shells
    ELSE LET i == Len(shells)
             remove == Min(shells[i], electrons_to_change)
         IN  Append(remove_electrons(SubSeq(shells, 1, i - 1),
                                     electrons_to_change - remove),
                    shells[i] - remove)

\* "while shells and shells[-1] == 0: shells.pop()"
RECURSIVE pop_empty_shells(_)
pop_empty_shells(shells) ==
    IF shells # <<>> /\ shells[Len(shells)] = 0
    THEN pop_empty_shells(SubSeq(shells, 1, Len(shells) - 1))
    ELSE shells

\* mutant: the shells emptied by the removal are kept
ion_shells_keep_empty(shells, charge) ==
    IF charge > 0 THEN remove_electrons(shells, Abs(charge))
    ELSE IF charge < 0
    THEN IF shells # <<>>
         THEN [shells EXCEPT ![Len(shells)] = @ + Abs(charge)]
         ELSE <<Abs(charge)>>
    ELSE shells

\* the shells of the ion of that charge
ion_shells(shells, charge) ==
    IF charge > 0 THEN pop_empty_shells(remove_electrons(shells, Abs(charge)))
    ELSE IF charge < 0
    THEN IF shells # <<>>
         THEN [shells EXCEPT ![Len(shells)] = @ + Abs(charge)]
         ELSE <<Abs(charge)>>
    ELSE shells

\* mutant: the shells of the table entry are changed in place
draw_ion_shell_diagram_in_place(element, charge) ==
    IF element \notin DOMAIN ELECTRON_CONFIG
    THEN [raised |-> <<"ValueError", "Unknown element: ", element>>,
          symbol |-> "", charge |-> charge, shells |-> <<>>,
          ELECTRON_CONFIG |-> ELECTRON_CONFIG]
    ELSE LET config == ELECTRON_CONFIG[element]
             shells == ion_shells(config.shells, charge)
         IN  [raised |-> None, symbol |-> config.symbol, charge |-> charge,
              shells |-> shells,
              ELECTRON_CONFIG |->
                  [ELECTRON_CONFIG EXCEPT ![element].shells = shells]]

\* draw_ion_shell_diagram: the symbol and charge in the nucleus, the
\* electrons on each shell of the ion, and the table after the call; the
\* shells are changed in a copy, "shells = list(config['shells'])"
draw_ion_shell_diagram(element, charge) ==
    IF element \notin DOMAIN ELECTRON_CONFIG
    THEN [raised |-> <<"ValueError", "Unknown element: ", element>>,
          symbol |-> "", charge |-> charge, shells |-> <<>>,
          ELECTRON_CONFIG |-> ELECTRON_CONFIG]
    ELSE LET config == ELECTRON_CONFIG[element]
             shells == ion_shells(config.shells, charge)
         IN  [raised |-> None, symbol |-> config.symbol, charge |-> charge,
              shells |-> shells,
              ELECTRON_CONFIG |-> ELECTRON_CONFIG]

(***************************************************************************)
(* Calls of the chemistry functions.                                       *)
(***************************************************************************)
\* the directions of the bonds of an atom, as np.arctan2 gives them
CompassDirections == {-135, -90, -45, 0, 45, 90, 135, 180}

DirectionSets ==
    {D \in SUBSET CompassDirections : Cardinality(D) <= MaxBonds}

RECURSIVE Descending(_)
Descending(D) ==
    IF D = {} THEN <<>>
    ELSE LET m == CHOOSE x \in D : \A y \in D : y <= x
         IN  <<m>> \o Descending(D \ {m})

CentreSymbols == {"H", "He", "C", "N", "O", "Cl", "Ne", "Xe"}

NeighbourSymbols == {"H", "C"}

BondTypes == {"SINGLE", "DOUBLE", "TRIPLE", "AROMATIC"}

\* the bond length of the layout library
LayoutBondLength == Q(3, 2)

\* a molecule as laid out by the library: an atom at the origin and the
\* atoms bonded to it, one bond length away in the directions D
Star(centre, neighbour, D, bond_type) ==
    LET dirs == Descending(D)
    IN  [atoms |-> <<[symbol |-> centre, pos |-> Vec(Zero, Zero)]>> \o
                   [j \in 1..Len(dirs) |->
                       [symbol |-> neighbour,
                        pos |-> VScale(LayoutBondLength,
                                       Vec(ExactCos(dirs[j]),
                                           ExactSin(dirs[j])))]],
         bonds |-> [j \in 1..Len(dirs) |->
                       [begin |-> 0, end |-> j, type |-> bond_type]]]

\* a noble gas atom stays alone, hydrogen has at most one bond
MaxBondsOf(symbol) ==
    CASE symbol \in {"He", "Ne"} -> 0
      [] symbol = "H" -> 1
      [] OTHER -> MaxBonds

\* an atom of an aromatic ring has at least two bonds
Molecules ==
    {Star(c, n, D, t) :
        <<c, n, D, t>> \in
            {x \in CentreSymbols \X NeighbourSymbols \X DirectionSets
                   \X BondTypes :
                /\ Cardinality(x[3]) <= MaxBondsOf(x[1])
                /\ x[4] = "AROMATIC" => Cardinality(x[3]) >= 2}}

SmallMolecules == {m \in Molecules : Len(m.bonds) <= 1}

NoAtoms == [atoms |-> <<>>, bonds |-> <<>>]

Water == Star("O", "H", {-45, 45}, "SINGLE")

\* what the layout library does with the string: it is missing, or
\* MolFromSmiles raises, returns None or returns a molecule
Parsed(mol) ==
    [installed |-> TRUE, MolFromSmiles |-> "Mol", exception |-> <<>>,
     mol |-> mol]

FailedOutcomes ==
    {[installed |-> FALSE, MolFromSmiles |-> "None", exception |-> <<>>,
      mol |-> NoAtoms],
     [installed |-> TRUE, MolFromSmiles |-> "raises",
      exception |-> <<"ArgumentError">>, mol |-> NoAtoms],
     [installed |-> TRUE, MolFromSmiles |-> "None", exception |-> <<>>,
      mol |-> NoAtoms]}

\* the strings of blanks and atoms of at most MaxSmilesLen characters
SmilesStrings ==
    UNION {[1..n -> {" ", "C"}] : n \in 0..MaxSmilesLen}

SmilesInputs ==
    [method : {"chemistry"}, fn : {"parse_smiles"},
     smiles_string : SmilesStrings,
     rdkit : FailedOutcomes \cup {Parsed(NoAtoms), Parsed(Water)}]
    \cup
    [method : {"chemistry"}, fn : {"parse_smiles"},
     smiles_string : {<<"C">>}, rdkit : {Parsed(m) : m \in Molecules}]
    \cup
    [method : {"chemistry"}, fn : {"parse_smiles_for_formula"},
     smiles_string : SmilesStrings, add_hydrogens : BOOLEAN,
     rdkit : FailedOutcomes \cup {Parsed(NoAtoms), Parsed(Water)}]
    \cup
    [method : {"chemistry"}, fn : {"parse_smiles_for_formula"},
     smiles_string : {<<"C">>}, add_hydrogens : BOOLEAN,
     rdkit : {Parsed(m) : m \in SmallMolecules}]

\* the elements of the table and one that is not in it
ShellElements == DOMAIN InitialElectronConfig \cup {"Xx"}

ShellInputs ==
    [method : {"chemistry"}, fn : {"draw_electron_shell_diagram"},
     element : ShellElements]
    \cup
    [method : {"chemistry"}, fn : {"draw_ion_shell_diagram"},
     element : ShellElements, charge : -MaxCharge..MaxCharge]

\* the names of the presets and one that is not a preset
PresetNames == DOMAIN InitialPresetMolecules \cup {"XeF4"}

MoleculeInputs ==
    [method : {"chemistry"},
     fn : {"get_preset_molecule", "draw_covalent_molecule",
           "draw_ionic_compound"},
     name : PresetNames]

InitChemistry ==
    /\ args \in SmilesInputs \cup ShellInputs \cup MoleculeInputs
    /\ pc = "call"
    /\ vertices = Pending
    /\ info = Pending
    /\ turns = 0
    /\ ModulesLoaded

ChemCall(fn, result) ==
    /\ pc = "call"
    /\ args.method = "chemistry"
    /\ args.fn = fn
    /\ info' = result
    /\ pc' = "done"
    /\ calls' = [calls EXCEPT !.made = @ + 1]
    /\ UNCHANGED <<args, vertices, turns, ELECTRON_CONFIG, ELEMENT_DATA,
                   PRESET_MOLECULES, session_state>>

\* the call of the dot-and-cross page: scale='auto', target_overlap=0.45
call_parse_smiles ==
    ChemCall("parse_smiles",
             parse_smiles(args.smiles_string, "auto", Q(3, 5), Q(9, 20),
                          args.rdkit))

call_parse_smiles_for_formula ==
    ChemCall("parse_smiles_for_formula",
             parse_smiles_for_formula(args.smiles_string, args.add_hydrogens,
                                      args.rdkit))

call_get_preset_molecule ==
    ChemCall("get_preset_molecule", get_preset_molecule(args.name))

call_draw_covalent_molecule ==
    ChemCall("draw_covalent_molecule",
             draw_covalent_molecule(get_preset_molecule(args.name)))

call_draw_ionic_compound ==
    ChemCall("draw_ionic_compound",
             draw_ionic_compound(get_preset_molecule(args.name)))

call_draw_electron_shell_diagram ==
    ChemCall("draw_electron_shell_diagram",
             draw_electron_shell_diagram(args.element))

\* the table after the call is the table the function leaves behind; calls
\* remembers the element that was last drawn as an ion
call_draw_ion_shell_diagram ==
    LET drawn == draw_ion_shell_diagram(args.element, args.charge)
    IN  /\ pc = "call"
        /\ args.method = "chemistry"
        /\ args.fn = "draw_ion_shell_diagram"
        /\ info' = [raised |-> drawn.raised, symbol |-> drawn.symbol,
                    charge |-> drawn.charge, shells |-> drawn.shells]
        /\ ELECTRON_CONFIG' = drawn.ELECTRON_CONFIG
        /\ pc' = "done"
        /\ calls' = [made |-> calls.made + 1,
                      ion_drawn |-> IF drawn.raised = None /\ args.charge # 0
                                    THEN args.element ELSE calls.ion_drawn]
        /\ UNCHANGED <<args, vertices, turns, ELEMENT_DATA, PRESET_MOLECULES,
                       session_state>>

\* the page runs again with other widget values; the modules stay loaded
rerun ==
    /\ pc = "done"
    /\ args.method = "chemistry"
    /\ calls.made < MaxCalls
    /\ args' \in ShellInputs \cup MoleculeInputs
    /\ pc' = "call"
    /\ info' = Pending
    /\ UNCHANGED <<chem, session_state, vertices, turns>>

NextChemistry ==
    \/ call_parse_smiles
    \/ call_parse_smiles_for_formula
    \/ call_get_preset_molecule
    \/ call_draw_covalent_molecule
    \/ call_draw_ionic_compound
    \/ call_draw_electron_shell_diagram
    \/ call_draw_ion_shell_diagram
    \/ rerun

SpecChemistry == InitChemistry /\ [][NextChemistry]_vars

(***************************************************************************)
(* Properties of the chemistry functions.                                  *)
(***************************************************************************)
IsChemCall(fn) == args.method = "chemistry" /\ args.fn = fn /\ pc = "done"

\* parse_smiles has returned molecule data
Parsed_smiles == IsChemCall("parse_smiles") /\ info[2] = None

\* C15: hydrogen and helium never have lone pairs: in the molecule data
\* returned by parse_smiles and in every preset molecule, no key of
\* lone_pairs is the index of an H or He atom.
C15_NoLonePairsOnHydrogenOrHelium ==
    /\ \A name \in DOMAIN PRESET_MOLECULES :
          LET m == PRESET_MOLECULES[name]
          IN  "lone_pairs" \in DOMAIN m =>
                  \A i \in DOMAIN m.lone_pairs :
                      m.atoms[i + 1].element \notin {"H", "He"}
    /\ Parsed_smiles =>
          \A i \in DOMAIN info[1].lone_pairs :
              info[1].atoms[i + 1].element \notin {"H", "He"}

\* a molecule with a hydrogen atom comes back with lone pairs on another atom
C15_Witness ==
    /\ Parsed_smiles
    /\ \E k \in 1..Len(info[1].atoms) : info[1].atoms[k].element = "H"
    /\ DOMAIN info[1].lone_pairs # {}

\* the molecule the layout library gave to parse_smiles
LaidOut == args.rdkit.mol

\* atom i of the molecule is given lone pairs and has k bonds
NeedsLonePairs(i, k) ==
    /\ AtomSymbol(LaidOut, i) \notin {"H", "He"}
    /\ num_lone_pairs_of(LaidOut, i) > 0
    /\ Len(bonds_of(LaidOut, i)) = k

\* [base] for one pair, [base - 30, base + 30] for two pairs and
\* [base - 45, base, base + 45] for three pairs
OppositeAngles(base, n) ==
    [j \in 1..n |->
        CASE n = 1 -> base
          [] n = 2 -> Add(base, I(60 * j - 90))
          [] n = 3 -> Add(base, I(45 * j - 90))
          [] OTHER -> NaN]

GapSizes(sorted) ==
    [j \in 1..Len(sorted) |->
        IF j < Len(sorted) THEN Sub(sorted[j + 1], sorted[j])
        ELSE Sub(Add(sorted[1], I(360)), sorted[j])]

\* C17: for an atom with k >= 2 bonds that needs n lone pairs, the k gaps
\* between the sorted bond directions sum to 360 degrees, and all n lone
\* pairs are placed: n angles are returned, each the midpoint of a gap,
\* taken in order of decreasing gap size.
C17_AllLonePairsInLargestGaps ==
    Parsed_smiles =>
        \A i \in 0..(Len(LaidOut.atoms) - 1) :
            \A k \in 2..MaxBonds :
                NeedsLonePairs(i, k) =>
                    LET n == num_lone_pairs_of(LaidOut, i)
                        sorted == list_sort(bonded_directions_of(LaidOut, i))
                        sizes == GapSizes(sorted)
                        angles == info[1].lone_pairs[i]
                        \* the gap whose midpoint is the angle
                        GapOf(a) ==
                            CHOOSE j \in 1..k :
                                a = mod360(Add(sorted[j],
                                               Div(sizes[j], Two)))
                    IN  /\ SumOf(sizes) = I(360)
                        /\ Len(angles) = n
                        /\ \A a \in 1..Len(angles) :
                              \E j \in 1..k :
                                  angles[a] = mod360(Add(sorted[j],
                                                         Div(sizes[j], Two)))
                        /\ \A a \in 1..(Len(angles) - 1) :
                              Ge(sizes[GapOf(angles[a])],
                                 sizes[GapOf(angles[a + 1])])

\* the string is empty or holds only blanks
IsBlank(str) == \A k \in 1..Len(str) : str[k] = " "

\* one of the failures that the parsers report: no input, no layout
\* library, a string that cannot be parsed, a molecule without atoms
ParseFails ==
    \/ IsBlank(args.smiles_string)
    \/ ~args.rdkit.installed
    \/ args.rdkit.MolFromSmiles \in {"raises", "None"}
    \/ args.rdkit.mol.atoms = <<>>

C20_TablesKeepInitialContents ==
    /\ ELECTRON_CONFIG = InitialElectronConfig
    /\ ELEMENT_DATA = InitialElementData
    /\ PRESET_MOLECULES = InitialPresetMolecules
    /\ (/\ IsChemCall("draw_electron_shell_diagram")
        /\ args.element \in DOMAIN InitialElectronConfig) =>
           /\ info.raised = None
           /\ info.shells = InitialElectronConfig[args.element].shells
    /\ IsChemCall("get_preset_molecule") =>
           \E name \in DOMAIN InitialPresetMolecules :
               info = InitialPresetMolecules[name]

\* sodium is drawn with its shells 2, 8, 1 after it was drawn as an ion
C20_Witness ==
    /\ IsChemCall("draw_electron_shell_diagram")
    /\ args.element = "Na"
    /\ calls.ion_drawn = "Na"
    /\ info.shells = <<2, 8, 1>>

(***************************************************************************)
(* shared_utils.py: the session state of a page.                           *)
(***************************************************************************)
\* three of the keys of TRI_DEFAULTS with their defaults
TRI_DEFAULTS ==
    [tri_side_a |-> 3, tri_side_b |-> 4, tri_rotation |-> 0]

\* the keys of the triangle page and a key of another page
SessionKeys == DOMAIN TRI_DEFAULTS \cup {"circ_radius"}

SessionValues == 0..MaxValue

\* mutant: every default is written, whether the key is present or not
init_session_state_overwrite(state, defaults) ==
    [key \in DOMAIN state \cup DOMAIN defaults |->
        IF key \in DOMAIN defaults THEN defaults[key] ELSE state[key]]

\* init_session_state: the session state after the call
init_session_state(state, defaults) ==
    [key \in DOMAIN state \cup DOMAIN defaults |->
        IF key \in DOMAIN state THEN state[key] ELSE defaults[key]]

InitSession ==
    /\ args = [method |-> "session"]
    /\ pc = "start"
    /\ vertices = Pending
    /\ info = Pending
    /\ turns = 0
    /\ ModulesNotLoaded

\* the page script starts with init_session_state(TRI_DEFAULTS)
call_init_session_state ==
    /\ pc = "start"
    /\ args.method = "session"
    /\ session_state' = init_session_state(session_state, TRI_DEFAULTS)
    /\ pc' = "widgets"
    /\ UNCHANGED <<chem, args, vertices, info, turns>>

\* the user sets a widget, of this page or of another one, and the script
\* runs again
user_edit ==
    /\ pc = "widgets"
    /\ args.method = "session"
    /\ \E key \in SessionKeys, value \in SessionValues :
          session_state' =
              [k \in DOMAIN session_state \cup {key} |->
                  IF k = key THEN value ELSE session_state[k]]
    /\ pc' = "start"
    /\ UNCHANGED <<chem, args, vertices, info, turns>>

NextSession == call_init_session_state \/ user_edit

SpecSession == InitSession /\ [][NextSession]_vars

\* a step of init_session_state
IsInitStep == args.method = "session" /\ pc = "start" /\ pc' = "widgets"

\* C21: init_session_state sets each key of defaults that is absent to its
\* default and leaves every key that is present, and every key not in
\* defaults, unchanged, so a value set by the user is never overwritten by a
\* default; a second call changes nothing.
C21_DefaultsNeverOverwrite ==
    [][IsInitStep =>
         /\ DOMAIN session_state' = DOMAIN session_state \cup DOMAIN TRI_DEFAULTS
         /\ \A key \in DOMAIN session_state :
               session_state'[key] = session_state[key]
         /\ \A key \in DOMAIN TRI_DEFAULTS \ DOMAIN session_state :
               session_state'[key] = TRI_DEFAULTS[key]
         /\ init_session_state(session_state', TRI_DEFAULTS) = session_state'
      ]_vars

\* the page has started again after the user set a side to another value
\* than its default, and a key of another page
C21_Witness ==
    /\ args.method = "session"
    /\ pc = "widgets"
    /\ DOMAIN session_state = SessionKeys
    /\ session_state["tri_side_a"] = 5
    /\ session_state["tri_side_b"] = TRI_DEFAULTS["tri_side_b"]

(***************************************************************************)
(* The pages' render functions: the z-order of every primitive drawn.      *)
(***************************************************************************)
\* a primitive handed to the axes: its layer, what it shows, its z-order
Primitive(kind, what, zorder) == [kind |-> kind, what |-> what, zorder |-> zorder]

When(cond, prims) == IF cond THEN prims ELSE {}

\* mutant: the fill is drawn one above the outline
draw_shape_zorders_fill_above(what, fill, zorder) == {Primitive("outline", what, zorder)} \cup When(fill, {Primitive("fill", what, zorder + 1)})

\* draw_triangle, draw_quadrilateral, draw_circle: the edges at zorder and,
\* when fill is set, the filled patch at zorder - 1
draw_shape_zorders(what, fill, zorder) == {Primitive("outline", what, zorder)} \cup When(fill, {Primitive("fill", what, zorder - 1)})

\* draw_diagonal: the dashed line at zorder (default 8), its label at 100
draw_diagonal_zorders(label, zorder) ==
    {Primitive("marker", "diagonal", zorder)}
        \cup When(label, {Primitive("label", "diagonal", 100)})

\* render_triangle (Triangles.py): o holds the page's options
render_triangle_zorders(o) ==
    draw_shape_zorders("triangle", o.fill, 10)
        \cup When(o.vertex_labels, {Primitive("label", "vertex", 50)})
        \cup When(o.side_labels, {Primitive("label", "side", 50)})
        \cup When(o.angles = "right", {Primitive("marker", "right_angle", 15)})
        \cup When(o.angles = "arc", {Primitive("marker", "angle_arc", 15)})
        \cup When(o.angles # "none" /\ o.angle_labels,
                  {Primitive("label", "angle", 50)})
        \cup When(o.ticks > 0, {Primitive("marker", "tick", 20)})

\* render_quadrilateral (Quadrilaterals.py): the helpers' default z-orders
\* apply wherever the page passes none
render_quadrilateral_zorders(o) ==
    When(o.diag_ac, draw_diagonal_zorders(o.diag_labels, 8))
        \cup When(o.diag_bd, draw_diagonal_zorders(o.diag_labels, 8))
        \cup draw_shape_zorders("quadrilateral", o.fill, 10)
        \cup When(o.angles = "right", {Primitive("marker", "right_angle", 15)})
        \cup When(o.angles = "arc", {Primitive("marker", "angle_arc", 15)})
        \cup When(o.angles # "none" /\ o.angle_labels,
                  {Primitive("label", "angle", 100)})
        \cup When(o.ticks > 0, {Primitive("marker", "tick", 20)})
        \cup When(o.parallel > 0, {Primitive("marker", "parallel", 20)})
        \cup When(o.side_labels, {Primitive("label", "side", 100)})
        \cup When(o.vertex_labels, {Primitive("label", "vertex", 100)})

\* render_circle (Circles.py)
render_circle_zorders(o) ==
    When(o.sector, {Primitive("fill", "sector", 2)})
        \cup When(o.segment, {Primitive("fill", "segment", 2)})
        \cup draw_shape_zorders("circle", o.fill, 10)
        \cup When(o.arc, {Primitive("marker", "arc", 12)})
        \cup When(o.arc /\ o.labels, {Primitive("label", "arc", 100)})
        \cup When(o.diameter, {Primitive("marker", "diameter", 15)})
        \cup When(o.radius, {Primitive("marker", "radius", 15)})
        \cup When(o.chord, {Primitive("marker", "chord", 15)})
        \cup When(o.tangent, {Primitive("marker", "tangent", 15)})
        \cup When(o.central_angle, {Primitive("marker", "central_angle", 15)})
        \cup When((o.diameter \/ o.radius \/ o.chord \/ o.tangent
                      \/ o.central_angle) /\ o.labels,
                  {Primitive("label", "line", 100)})
        \cup When(o.center, {Primitive("marker", "center", 20)})
        \cup When(o.point, {Primitive("marker", "point", 25)})
        \cup When((o.center \/ o.point) /\ o.labels,
                  {Primitive("label", "point", 100)})

AngleMarkers == {"none", "arc", "right"}

TriangleRenderOptions ==
    [page : {"triangle"}, fill : BOOLEAN, vertex_labels : BOOLEAN,
     side_labels : BOOLEAN, angles : AngleMarkers, angle_labels : BOOLEAN,
     ticks : 0..1]

QuadrilateralRenderOptions ==
    [page : {"quadrilateral"}, fill : BOOLEAN, diag_ac : BOOLEAN,
     diag_bd : BOOLEAN, diag_labels : BOOLEAN, angles : AngleMarkers,
     angle_labels : BOOLEAN, ticks : 0..1, parallel : 0..1,
     side_labels : BOOLEAN, vertex_labels : BOOLEAN]

CircleRenderOptions ==
    [page : {"circle"}, fill : BOOLEAN, sector : BOOLEAN, segment : BOOLEAN,
     arc : BOOLEAN, diameter : BOOLEAN, radius : BOOLEAN, chord : BOOLEAN,
     tangent : BOOLEAN, central_angle : BOOLEAN, center : BOOLEAN,
     point : BOOLEAN, labels : BOOLEAN]

InitRender ==
    /\ args \in TriangleRenderOptions \cup QuadrilateralRenderOptions
                    \cup CircleRenderOptions
    /\ pc = "options"
    /\ vertices = Pending
    /\ info = Pending
    /\ turns = 0
    /\ ModulesNotLoaded

Rendered(prims) ==
    /\ pc = "options"
    /\ info' = prims
    /\ pc' = "rendered"
    /\ UNCHANGED <<chem, args, vertices, turns, session_state>>

call_render_triangle ==
    /\ args.page = "triangle"
    /\ Rendered(render_triangle_zorders(args))

call_render_quadrilateral ==
    /\ args.page = "quadrilateral"
    /\ Rendered(render_quadrilateral_zorders(args))

call_render_circle ==
    /\ args.page = "circle"
    /\ Rendered(render_circle_zorders(args))

NextRender ==
    \/ call_render_triangle
    \/ call_render_quadrilateral
    \/ call_render_circle

SpecRender == InitRender /\ [][NextRender]_vars

Layer(kind) ==
    CASE kind = "fill" -> 1
      [] kind = "outline" -> 2
      [] kind = "marker" -> 3
      [] kind = "label" -> 4

IsRendered == pc = "rendered"

\* C22 as stated: in every render a primitive of a lower layer (fill, outline,
\* marker, label, in this order) has the smaller z-order, diagonals counted
\* as markers
C22_LayersOrdered ==
    IsRendered =>
        \A p, q \in info : Layer(p.kind) < Layer(q.kind) => p.zorder < q.zorder

IsDiagonalLine(p) == p.kind = "marker" /\ p.what = "diagonal"

\* C22 amended: the layers are ordered for every pair of primitives that are
\* not diagonal lines, and a diagonal line lies below the fill and the outline
\* of its quadrilateral and below every other marker and every label
C22_LayersOrderedButDiagonals ==
    IsRendered =>
        /\ \A p, q \in info :
              (~IsDiagonalLine(p) /\ ~IsDiagonalLine(q)
                  /\ Layer(p.kind) < Layer(q.kind)) => p.zorder < q.zorder
        /\ \A p, q \in info :
              (IsDiagonalLine(p) /\ ~IsDiagonalLine(q)) => p.zorder < q.zorder

\* a filled quadrilateral with a labelled diagonal, an angle arc and labels
C22_Witness ==
    /\ IsRendered
    /\ args.page = "quadrilateral"
    /\ \E p \in info : IsDiagonalLine(p)
    /\ {p.kind : p \in info} = {"fill", "outline", "marker", "label"}

(***************************************************************************)
(* Angle labels: the bisector at a vertex (triangle_utils.py and           *)
(* quadrilateral_utils.py).  Vertices are numbered from 0 as in the code.  *)
(***************************************************************************)
VertexAt(vs, i) == vs[(i % Len(vs)) + 1]

UnitTo(vs, from, to) ==
    VDiv(VSub(VertexAt(vs, to), VertexAt(vs, from)),
         Norm(VSub(VertexAt(vs, to), VertexAt(vs, from))))

\* get_angle_bisector_direction: on the grid of the model a norm below 1e-10
\* is the norm 0 of two antiparallel unit vectors
get_angle_bisector_direction(vs, vertex_index) ==
    LET v1 == UnitTo(vs, vertex_index, vertex_index + Len(vs) - 1)
        v2 == UnitTo(vs, vertex_index, vertex_index + 1)
        bisector == VAdd(v1, v2)
    IN  IF Norm(bisector) = Zero
        THEN Vec(Neg(v1[2]), v1[1])
        ELSE VDiv(bisector, Norm(bisector))

\* draw_angle_label of triangle_utils.py with direction 'auto': the position
\* of the text
triangle_draw_angle_label(vs, vertex_index, distance) ==
    LET offset_dir == get_angle_bisector_direction(vs, vertex_index)
    IN  [bisector |-> offset_dir,
         label_pos |-> VAdd(VertexAt(vs, vertex_index),
                            VScale(distance, offset_dir))]

\* draw_angle_label of quadrilateral_utils.py.  Every norm has 1e-10 added
\* before the division and there is no test of the sum.  For edges of
\* lengths a and b that are not antiparallel the result differs from the
\* unit bisector by a factor within 1e-10 of 1, taken as 1 here.  For
\* antiparallel edges along the unit vector u the sum is
\* u*(a/(a + e) - b/(b + e)) with e = 1e-10, and dividing it by its norm plus
\* e gives u*(a - b)/(|a - b| + (a + e)*(b + e)), that is
\* u*(a - b)/(|a - b| + a*b) up to 1e-10.
quadrilateral_draw_angle_label(vs, vertex_idx, radius, distance) ==
    LET n == Len(vs)
        v == VertexAt(vs, vertex_idx)
        a == Norm(VSub(VertexAt(vs, vertex_idx + n - 1), v))
        b == Norm(VSub(VertexAt(vs, vertex_idx + 1), v))
        vec1 == UnitTo(vs, vertex_idx, vertex_idx + n - 1)
        vec2 == UnitTo(vs, vertex_idx, vertex_idx + 1)
        sum == VAdd(vec1, vec2)
        bisector ==
            IF Norm(sum) = Zero
            THEN VScale(Div(Sub(a, b), Add(AbsR(Sub(a, b)), Mul(a, b))), vec1)
            ELSE VDiv(sum, Norm(sum))
    IN  [bisector |-> bisector,
         label_pos |-> VAdd(v, VScale(Add(radius, distance), bisector))]

\* consecutive vertices differ
IsPolygon(vs) == \A i \in 0..(Len(vs) - 1) : VertexAt(vs, i) # VertexAt(vs, i + 1)

\* the fourth vertex of the quadrilaterals
FourthVertex == Vec(I(1), I(1))

AngleLabelInputs ==
    {a \in [shape : {"triangle"}, coords : Grid \X Grid \X Grid,
            vertex_index : 0..2]
           \cup [shape : {"quadrilateral"},
                 coords : Grid \X Grid \X Grid \X {FourthVertex},
                 vertex_index : 0..3] :
        IsPolygon(a.coords)}

\* the distances of the two pages' defaults: 0.6, and 0.5 + 0.3
TriangleLabelDistance == Q(3, 5)
QuadAngleRadius == Q(1, 2)
QuadLabelDistance == Q(3, 10)

InitAngleLabel ==
    /\ args \in AngleLabelInputs
    /\ pc = "label"
    /\ vertices = Pending
    /\ info = Pending
    /\ turns = 0
    /\ ModulesNotLoaded

call_triangle_draw_angle_label ==
    /\ pc = "label"
    /\ args.shape = "triangle"
    /\ vertices' = args.coords
    /\ info' = triangle_draw_angle_label(args.coords, args.vertex_index,
                                         TriangleLabelDistance)
    /\ pc' = "labelled"
    /\ UNCHANGED <<chem, session_state, args, turns>>

call_quadrilateral_draw_angle_label ==
    /\ pc = "label"
    /\ args.shape = "quadrilateral"
    /\ vertices' = args.coords
    /\ info' = quadrilateral_draw_angle_label(args.coords, args.vertex_index,
                                              QuadAngleRadius,
                                              QuadLabelDistance)
    /\ pc' = "labelled"
    /\ UNCHANGED <<chem, session_state, args, turns>>

NextAngleLabel ==
    call_triangle_draw_angle_label \/ call_quadrilateral_draw_angle_label

SpecAngleLabel == InitAngleLabel /\ [][NextAngleLabel]_vars

IsLabelled == pc = "labelled" /\ IsPoint(info.bisector)

\* the two unit vectors from the labelled vertex to its neighbours
LabelV1 == UnitTo(vertices, args.vertex_index, args.vertex_index + Len(vertices) - 1)
LabelV2 == UnitTo(vertices, args.vertex_index, args.vertex_index + 1)
IsStraightAngle == VAdd(LabelV1, LabelV2) = Vec(Zero, Zero)

LabelDistance ==
    IF args.shape = "triangle" THEN TriangleLabelDistance
    ELSE Add(QuadAngleRadius, QuadLabelDistance)

BisectorAsStated ==
    /\ info.bisector =
          IF IsStraightAngle THEN Vec(Neg(LabelV1[2]), LabelV1[1])
          ELSE VDiv(VAdd(LabelV1, LabelV2), Norm(VAdd(LabelV1, LabelV2)))
    /\ Norm(VSub(info.label_pos, VertexAt(vertices, args.vertex_index)))
          = LabelDistance

\* C23: for triangle and quadrilateral angle labels the bisector is the
\* renormalised sum of the unit vectors to the adjacent vertices, at a
\* straight angle the perpendicular (-v1.y, v1.x), and the label lies at its
\* full distance from the vertex
C23_BisectorWithFallback == IsLabelled => BisectorAsStated

\* the same for the triangle labels alone
C23_TriangleBisectorWithFallback ==
    (IsLabelled /\ args.shape = "triangle") => BisectorAsStated

C23_TriangleWitness ==
    IsLabelled /\ args.shape = "triangle" /\ IsStraightAngle

(***************************************************************************)
(* Tick marks on a side (triangle_utils.py and quadrilateral_utils.py).    *)
(* A tick is its centre and its two ends; range(num_ticks) is empty for    *)
(* num_ticks <= 0.                                                         *)
(***************************************************************************)
MaxTicks == 3

range(n) == IF n <= 0 THEN {} ELSE 0..(n - 1)

Tick(center, half) ==
    [center |-> center, p1 |-> VSub(center, half), p2 |-> VAdd(center, half)]

\* draw_tick_marks of triangle_utils.py: tick t of range(num_ticks) is at
\* index t + 1
triangle_draw_tick_marks(vs, side_index, num_ticks, tick_length) ==
    LET midpoint == get_side_midpoint(vs, side_index)
        outward == get_outward_direction(vs, side_index)
        i == side_index
        j == (side_index + 1) % 3
        side_dir == VDiv(VSub(At(vs, j), At(vs, i)),
                         Norm(VSub(At(vs, j), At(vs, i))))
        tick_spacing == Mul(tick_length, Q(4, 5))
        start_offset == Neg(Mul(Q(num_ticks - 1, 2), tick_spacing))
    IN  [t \in range(num_ticks) |->
            LET offset == Add(start_offset, Mul(I(t), tick_spacing))
                tick_center == VAdd(midpoint, VScale(offset, side_dir))
            IN  Tick(tick_center, VScale(Div(tick_length, Two), outward))]

\* draw_tick_marks of quadrilateral_utils.py; perp is divided by the side
\* length plus 1e-10 and so is tick_length long to within 1e-10
quadrilateral_draw_tick_marks(p1, p2, num_ticks, tick_length) ==
    IF num_ticks <= 0 THEN <<>>
    ELSE LET mid == VDiv(VAdd(p1, p2), Two)
             side_vec == VSub(p2, p1)
             side_len == Norm(side_vec)
             perp == VScale(tick_length,
                            VDiv(Vec(Neg(side_vec[2]), side_vec[1]), side_len))
             spacing == Q(3, 20)
         IN  [i \in range(num_ticks) |->
                 LET offset == Mul(Sub(I(i), Q(num_ticks - 1, 2)), spacing)
                     tick_center == VAdd(mid, VScale(offset, VDiv(side_vec, side_len)))
                 IN  Tick(tick_center, VDiv(perp, Two))]

\* the defaults of the two functions: 0.15 and 0.25
TickLengths == {Q(3, 20), Q(1, 4)}

IsTriangle(vs) ==
    LET u == VSub(vs[2], vs[1])
        v == VSub(vs[3], vs[1])
    IN  Sub(Mul(u[1], v[2]), Mul(u[2], v[1])) # Zero

TickInputs ==
    {a \in [shape : {"triangle"}, coords : Grid \X Grid \X Grid,
            side_index : 0..2, num_ticks : -1..MaxTicks,
            tick_length : TickLengths] : IsTriangle(a.coords)}
        \cup {a \in [shape : {"quadrilateral"}, coords : Grid \X Grid,
                     side_index : {0}, num_ticks : -1..MaxTicks,
                     tick_length : TickLengths] : a.coords[1] # a.coords[2]}

\* the ticks drawn for the side of a with ticks of length tick_length
TicksOf(a, tick_length) ==
    IF a.shape = "triangle"
    THEN triangle_draw_tick_marks(a.coords, a.side_index, a.num_ticks,
                                  tick_length)
    ELSE quadrilateral_draw_tick_marks(a.coords[1], a.coords[2], a.num_ticks,
                                       tick_length)

InitTicks ==
    /\ args \in TickInputs
    /\ pc = "ticks"
    /\ vertices = Pending
    /\ info = Pending
    /\ turns = 0
    /\ ModulesNotLoaded

TicksDrawn ==
    /\ pc = "ticks"
    /\ vertices' = args.coords
    /\ info' = TicksOf(args, args.tick_length)
    /\ pc' = "ticked"
    /\ UNCHANGED <<chem, session_state, args, turns>>

call_triangle_draw_tick_marks == args.shape = "triangle" /\ TicksDrawn

call_quadrilateral_draw_tick_marks == args.shape = "quadrilateral" /\ TicksDrawn

NextTicks == call_triangle_draw_tick_marks \/ call_quadrilateral_draw_tick_marks

SpecTicks == InitTicks /\ [][NextTicks]_vars

\* the ends of the ticked side
SideStart == vertices[args.side_index + 1]
SideEnd == vertices[((args.side_index + 1) % Len(vertices)) + 1]
SideVec == VSub(SideEnd, SideStart)
SideMid == VDiv(VAdd(SideStart, SideEnd), Two)

OnSideLine(p) ==
    Sub(Mul(SideVec[1], Sub(p[2], SideStart[2])),
        Mul(SideVec[2], Sub(p[1], SideStart[1]))) = Zero

RECURSIVE SumCenters(_, _)
SumCenters(ticks, n) ==
    IF n = 0 THEN Vec(Zero, Zero)
    ELSE VAdd(SumCenters(ticks, n - 1), ticks[n - 1].center)

\* the distances between consecutive centres
Spacings(ticks) ==
    {Norm(VSub(ticks[t + 1].center, ticks[t].center)) :
        t \in {s \in DOMAIN ticks : s + 1 \in DOMAIN ticks}}

TickBisectedBySide(tick) ==
    /\ VDiv(VAdd(tick.p1, tick.p2), Two) = tick.center
    /\ Norm(VSub(tick.p2, tick.p1)) = args.tick_length
    /\ Dot(VSub(tick.p2, tick.p1), SideVec) = Zero

IsTicked == pc = "ticked"

TicksWellPlaced ==
    /\ args.num_ticks <= 0 => DOMAIN info = {}
    /\ args.num_ticks >= 1 =>
          /\ DOMAIN info = 0..(args.num_ticks - 1)
          /\ \A t \in DOMAIN info :
                OnSideLine(info[t].center) /\ TickBisectedBySide(info[t])
          /\ SumCenters(info, args.num_ticks)
                = VScale(I(args.num_ticks), SideMid)

\* C24: the ticks of a side have their centres on the side's line with the
\* midpoint as their mean, each is tick_length long, normal to the side and
\* bisected by it, none is drawn for n <= 0, and consecutive centres are
\* the same distance apart whatever the tick length
C24_TicksEvenlySpaced ==
    IsTicked =>
        /\ TicksWellPlaced
        /\ \A tick_length \in TickLengths :
              Spacings(TicksOf(args, tick_length)) = Spacings(info)

\* the same without the fixed distance: placement of the ticks only
C24_TicksWellPlaced == IsTicked => TicksWellPlaced

C24_PlacementWitness ==
    IsTicked /\ args.num_ticks = MaxTicks /\ args.shape = "triangle"

(***************************************************************************)
(* vector_utils.py: vectors drawn tip to tail.  A vector is a pair of a    *)
(* magnitude and a number of degrees, a multiple of 45.                    *)
(***************************************************************************)
MaxVectors == 2
MaxMagnitude == 2

\* draw_vector: the end point returned; the arrow runs from start to it
draw_vector(start, magnitude, angle_deg) ==
    LET dx == Mul(magnitude, ExactCos(angle_deg))
        dy == Mul(magnitude, ExactSin(angle_deg))
    IN  Vec(Add(start[1], dx), Add(start[2], dy))

\* the positions after each of the first n vectors, the start first
RECURSIVE tip_to_tail(_, _, _)
tip_to_tail(vectors, start, n) ==
    IF n = 0 THEN <<start>>
    ELSE LET before == tip_to_tail(vectors, start, n - 1)
             current_pos == before[n]
         IN  Append(before,
                    draw_vector(current_pos, I(vectors[n][1]), vectors[n][2]))

\* the dict 'resultant' of draw_vector_addition
resultant_info(current_pos, start) ==
    LET rx == Sub(current_pos[1], start[1])
        ry == Sub(current_pos[2], start[2])
    IN  [magnitude |-> Sqrt(Add(Mul(rx, rx), Mul(ry, ry))),
         angle |-> arctan2_degrees(ry, rx),
         components |-> Vec(rx, ry)]

\* mutant: every vector is drawn from the start point
draw_vector_addition_from_start(vectors, start, show_resultant) == [end_points |-> <<start>> \o [i \in 1..Len(vectors) |-> draw_vector(start, I(vectors[i][1]), vectors[i][2])], arrows |-> [i \in 1..Len(vectors) |-> [from |-> start, to |-> draw_vector(start, I(vectors[i][1]), vectors[i][2])]], resultant |-> IF show_resultant /\ Len(vectors) > 0 THEN resultant_info(draw_vector(start, I(vectors[Len(vectors)][1]), vectors[Len(vectors)][2]), start) ELSE None]

\* draw_vector_addition: the dict returned, and the arrows of the vectors as
\* handed to the axes
draw_vector_addition(vectors, start, show_resultant) ==
    LET end_points == tip_to_tail(vectors, start, Len(vectors))
        current_pos == end_points[Len(end_points)]
    IN  [end_points |-> end_points,
         arrows |-> [i \in 1..Len(vectors) |->
                        [from |-> end_points[i], to |-> end_points[i + 1]]],
         resultant |-> IF show_resultant /\ Len(vectors) > 0
                       THEN resultant_info(current_pos, start)
                       ELSE None]

VectorAngles == {45 * k : k \in 0..7}

OneVector == (0..MaxMagnitude) \X VectorAngles

VectorLists ==
    UNION {[1..n -> OneVector] : n \in 0..MaxVectors}

VectorInputs ==
    [method : {"vectors"}, vectors : VectorLists,
     start : {Vec(Zero, Zero), Vec(One, Q(-1, 2))}, show_resultant : BOOLEAN]

InitVectors ==
    /\ args \in VectorInputs
    /\ pc = "vectors"
    /\ vertices = Pending
    /\ info = Pending
    /\ turns = 0
    /\ ModulesNotLoaded

call_draw_vector_addition ==
    /\ pc = "vectors"
    /\ args.method = "vectors"
    /\ info' = draw_vector_addition(args.vectors, args.start,
                                    args.show_resultant)
    /\ pc' = "added"
    /\ UNCHANGED <<chem, session_state, args, vertices, turns>>

NextVectors == call_draw_vector_addition

SpecVectors == InitVectors /\ [][NextVectors]_vars

\* the components of one vector
ComponentsOf(v) == Vec(Mul(I(v[1]), ExactCos(v[2])), Mul(I(v[1]), ExactSin(v[2])))

RECURSIVE SumOfComponents(_, _)
SumOfComponents(vectors, n) ==
    IF n = 0 THEN Vec(Zero, Zero)
    ELSE VAdd(SumOfComponents(vectors, n - 1), ComponentsOf(vectors[n]))

IsAdded == pc = "added"

\* C25: end_points has len(vectors) + 1 entries and begins with start, vector
\* i is drawn from end_points[i] to end_points[i + 1] with its own
\* components, the resultant's components are end_points[-1] - start, the sum
\* of all components, when show_resultant is true and there are vectors, and
\* the resultant is None otherwise
C25_TipToTail ==
    IsAdded =>
        LET n == Len(args.vectors)
        IN  /\ Len(info.end_points) = n + 1
            /\ info.end_points[1] = args.start
            /\ Len(info.arrows) = n
            /\ \A i \in 1..n :
                  /\ info.arrows[i].from = info.end_points[i]
                  /\ info.arrows[i].to = info.end_points[i + 1]
                  /\ VSub(info.arrows[i].to, info.arrows[i].from)
                        = ComponentsOf(args.vectors[i])
            /\ (args.show_resultant /\ n > 0) =>
                  /\ info.resultant # None
                  /\ info.resultant.components
                        = VSub(info.end_points[n + 1], args.start)
                  /\ info.resultant.components
                        = SumOfComponents(args.vectors, n)
            /\ (~args.show_resultant \/ n = 0) => info.resultant = None

\* two vectors of different directions with their resultant
C25_Witness ==
    /\ IsAdded
    /\ args.show_resultant
    /\ Len(args.vectors) = MaxVectors
    /\ args.vectors[1][1] > 0
    /\ args.vectors[2][1] > 0
    /\ args.vectors[1][2] # args.vectors[2][2]
    /\ info.resultant # None
    /\ info.resultant.components # Vec(Zero, Zero)

(***************************************************************************)
(* Properties of the shell diagrams of ions.                               *)
(***************************************************************************)
RECURSIVE SumOfShells(_)
SumOfShells(shells) ==
    IF shells = <<>> THEN 0
    ELSE shells[Len(shells)] + SumOfShells(SubSeq(shells, 1, Len(shells) - 1))

\* an ion of an element of the table has been drawn
IonDrawn == IsChemCall("draw_ion_shell_diagram") /\ info.raised = None

NeutralShells == InitialElectronConfig[args.element].shells

\* C26: for a charge q > 0 the electrons are taken from the outermost shell
\* inwards, an inner shell only once the outer ones are empty, and empty
\* outer shells are dropped; for q < 0 the outermost shell gains |q|
\* electrons; the shells drawn sum to max(0, Z - q) and the outermost shell
\* drawn is never empty
C26_IonShells ==
    IonDrawn =>
        LET q == args.charge
            Z == SumOfShells(NeutralShells)
            n == Len(info.shells)
        IN  /\ SumOfShells(info.shells) = IF Z - q > 0 THEN Z - q ELSE 0
            /\ n > 0 => info.shells[n] > 0
            /\ q > 0 =>
                  /\ n <= Len(NeutralShells)
                  /\ \A i \in 1..n :
                        IF i < n THEN info.shells[i] = NeutralShells[i]
                        ELSE info.shells[i] <= NeutralShells[i]
            /\ q < 0 =>
                  /\ n = Len(NeutralShells)
                  /\ \A i \in 1..n :
                        info.shells[i] =
                            NeutralShells[i] + (IF i = n THEN -q ELSE 0)
            /\ q = 0 => info.shells = NeutralShells

\* a cation that has lost a whole shell and part of the next one
C26_Witness ==
    /\ IonDrawn
    /\ args.charge > 0
    /\ Len(info.shells) < Len(NeutralShells)
    /\ Len(info.shells) > 0
    /\ info.shells[Len(info.shells)] < NeutralShells[Len(info.shells)]

\* an anion
C26_AnionWitness == IonDrawn /\ args.charge < 0 /\ Len(info.shells) > 1

ShellCapacity(i) == IF i = 1 THEN 2 ELSE 8

ShellDrawn ==
    \/ IonDrawn
    \/ IsChemCall("draw_electron_shell_diagram") /\ info.raised = None

\* C27: every shell configuration drawn, of an atom or of an ion with a
\* charge of the range, holds at most 2 electrons on shell 1 and at most 8
\* on shells 2 and 3, and a shell holds electrons only when the shells inside
\* it are full
C27_ShellCapacities ==
    ShellDrawn =>
        \A i \in 1..Len(info.shells) :
            /\ i <= 3 => info.shells[i] <= ShellCapacity(i)
            /\ (i > 1 /\ info.shells[i] > 0) =>
                  info.shells[i - 1] >= ShellCapacity(i - 1)

(***************************************************************************)
(* Properties of the electron count of parse_smiles.                       *)
(***************************************************************************)
\* the orders reported in 'bonds' for the bonds of atom i
ReportedOrders(data, i) ==
    LET bs == SelectSeq(data.bonds, LAMBDA b : b[1] = i \/ b[2] = i)
    IN  SumInt([j \in 1..Len(bs) |-> bs[j][3]])

\* the electrons of atom i that the lone-pair count gives to its bonds
ChargedToBonding(mol, i) ==
    LET bs == bonds_of(mol, i)
    IN  SumInt([j \in 1..Len(bs) |-> bond_electrons(bs[j].type)])

LonePairAngles(data, i) ==
    IF i \in DOMAIN data.lone_pairs THEN Len(data.lone_pairs[i]) ELSE 0

\* atom i is of an element of the table and is charged no more bonding
\* electrons than it has outer electrons: the layout library accepts no atom
\* with more bonds than its valence
WithinValence(mol, i) ==
    /\ AtomSymbol(mol, i) \in DOMAIN ELEMENT_DATA
    /\ ChargedToBonding(mol, i)
          <= ELEMENT_DATA[AtomSymbol(mol, i)].outer_electrons

ElectronsAccounted(i) ==
    /\ ~never_has_lone_pairs(AtomSymbol(LaidOut, i)) =>
          ChargedToBonding(LaidOut, i) = ReportedOrders(info[1], i)
    /\ 2 * LonePairAngles(info[1], i) + ReportedOrders(info[1], i)
          <= ELEMENT_DATA[AtomSymbol(LaidOut, i)].outer_electrons

HasAromaticBond(mol, i) ==
    \E j \in 1..Len(bonds_of(mol, i)) : bonds_of(mol, i)[j].type = "AROMATIC"

\* C28: for every atom of a molecule returned by parse_smiles the electrons
\* charged to bonding equal the sum of the orders reported for the atom's
\* bonds, and twice the number of its lone-pair angles plus that sum is at
\* most the element's outer_electrons, aromatic bonds included
C28_ElectronsAccounted ==
    Parsed_smiles =>
        \A i \in 0..(Len(LaidOut.atoms) - 1) :
            WithinValence(LaidOut, i) => ElectronsAccounted(i)

\* the same for the atoms that have no aromatic bond
C28_ElectronsAccountedButAromatic ==
    Parsed_smiles =>
        \A i \in 0..(Len(LaidOut.atoms) - 1) :
            (WithinValence(LaidOut, i) /\ ~HasAromaticBond(LaidOut, i)) =>
                ElectronsAccounted(i)

C28_ButAromaticWitness ==
    /\ Parsed_smiles
    /\ \E i \in DOMAIN info[1].lone_pairs :
          /\ WithinValence(LaidOut, i)
          /\ ~HasAromaticBond(LaidOut, i)
          /\ ReportedOrders(info[1], i) > 1

(***************************************************************************)
(* The shared electrons of draw_covalent_molecule, for chains of three     *)
(* atoms a - b - c of any elements and bond orders.                        *)
(***************************************************************************)
ChainElements == {"H", "C", "N"}

\* the orders of 'bonds', and one that is no bond order of the diagram
ChainOrders == 1..4

Chain(a, b, c, order1, order2) ==
    [type |-> "covalent",
     atoms |-> <<[element |-> a, position |-> Vec(I(-1), Zero)],
                 [element |-> b, position |-> Vec(Zero, Zero)],
                 [element |-> c, position |-> Vec(One, Zero)]>>,
     bonds |-> <<<<0, 1, order1>>, <<1, 2, order2>>>>,
     lone_pairs |-> <<>>]

ChainInputs ==
    {[method |-> "chain", molecule |-> Chain(e[1], e[2], e[3], o[1], o[2])] :
        e \in ChainElements \X ChainElements \X ChainElements,
        o \in ChainOrders \X ChainOrders}

InitChain ==
    /\ args \in ChainInputs
    /\ pc = "call"
    /\ vertices = Pending
    /\ info = Pending
    /\ turns = 0
    /\ ModulesLoaded

call_draw_chain ==
    /\ pc = "call"
    /\ args.method = "chain"
    /\ info' = draw_covalent_molecule(args.molecule)
    /\ pc' = "done"
    /\ calls' = [calls EXCEPT !.made = @ + 1]
    /\ UNCHANGED <<args, vertices, turns, ELECTRON_CONFIG, ELEMENT_DATA,
                   PRESET_MOLECULES, session_state>>

NextChain == call_draw_chain

SpecChain == InitChain /\ [][NextChain]_vars

ChainDrawn == args.method = "chain" /\ pc = "done"

CountOf(markers, m) == Cardinality({e \in DOMAIN markers : markers[e] = m})

\* C29: for every bond of order n in 1..3 exactly 2n shared electrons are
\* drawn, n dots and n crosses, whatever the elements of the two atoms
C29_SharedElectrons ==
    ChainDrawn =>
        \A k \in 1..Len(args.molecule.bonds) :
            LET n == args.molecule.bonds[k][3]
            IN  n \in 1..3 =>
                    /\ Len(info.shared_markers[k]) = 2 * n
                    /\ info.shared[k] = 2 * n
                    /\ CountOf(info.shared_markers[k], "dot") = n
                    /\ CountOf(info.shared_markers[k], "cross") = n

\* a single bond between two atoms of the same element, both drawn with
\* dots, next to a triple bond with its six electrons
C29_Witness ==
    /\ ChainDrawn
    /\ args.molecule.bonds[1][3] = 1
    /\ args.molecule.bonds[2][3] = 3
    /\ args.molecule.atoms[1].element = args.molecule.atoms[2].element
    /\ info.markers[2] = "dot"
    /\ info.markers[3] = "cross"
    /\ Len(info.shared_markers[2]) = 6

\* two different elements that are both drawn with crosses share a pair
C29_BothCrossWitness ==
    /\ ChainDrawn
    /\ info.markers[2] = "cross"
    /\ info.markers[3] = "cross"
    /\ args.molecule.atoms[2].element # args.molecule.atoms[3].element
    /\ info.shared_markers[2] = <<"cross", "dot">>

(***************************************************************************)
(* The program: any one of the maths pages.  The chemistry pages are       *)
(* SpecChemistry.                                                          *)
(***************************************************************************)
Init == InitTriangle \/ InitQuadrilateral \/ InitCircle

Next == NextTriangle \/ NextQuadrilateral \/ NextCircle

Spec == Init /\ [][Next]_vars

====
